---- MODULE Spec2Model ----
(***************************************************************************)
(* Model of the neograph backend: the indexing pipeline (IndexDirectory    *)
(* and its workers on the shared tree-sitter parser), the handler's index  *)
(* run (indexRepository) and the graph writer's transactions on the store. *)
(* Every ExecuteWrite call of the code is one atomic step of the model.    *)
(***************************************************************************)
EXTENDS Integers, Sequences, FiniteSets, TLC

\* ------------------------------------------------------------------------
\* Bounds of the model
\* ------------------------------------------------------------------------
\* number of injected environment faults (failed transaction, failed clone,
\* failed walk, failed read or stat) in one behaviour
MaxFaults == 1

\* depth of the directories of a drawn working tree
MaxDepth == 2

\* number of nodes with an embedding that a vector search ranks
MaxIndexed == 2

\* largest limit of a vector search
MaxLimit == 2

\* number of statements in the body of a drawn entity
MaxStatements == 2

\* ------------------------------------------------------------------------
\* Program constants
\* ------------------------------------------------------------------------
\* sem := make(chan struct{}, 4)
SemCapacity == 4

RepoIds == {"r1", "r2"}
\* the index runs of a behaviour: each is one goroutine
\* go h.indexRepository(repo), started by one request
RunIds == {1, 2}

IgnoredDirs ==
  {".git", "node_modules", "vendor", "__pycache__", ".venv", "dist", "build", "target"}

LanguageByExtension ==
  (".go" :> "go") @@ (".py" :> "python") @@ (".ts" :> "typescript") @@
  (".tsx" :> "typescript") @@ (".js" :> "javascript") @@ (".jsx" :> "javascript") @@
  (".java" :> "java") @@ (".kt" :> "kotlin") @@ (".kts" :> "kotlin")

\* DetectLanguage(path): the language of the extension that is a proper
\* suffix of path (len(path) > len(ext)); "longer" says that the path is
\* longer than its extension.
DetectLanguage(ext, longer) ==
  IF longer /\ ext \in DOMAIN LanguageByExtension THEN LanguageByExtension[ext] ELSE ""

\* languages with a registered grammar
Languages == {"go", "python", "typescript", "javascript", "java", "kotlin"}

\* ------------------------------------------------------------------------
\* State
\* ------------------------------------------------------------------------
VARIABLES
  graph,          \* the graph store
  deleted,        \* ids of the repositories DeleteRepository has removed
                  \* (an id is a fresh uuid: it is never used again)
  runs,           \* per index run: its state
  parserUsers,    \* the workers << run, file index >> inside Parser.Parse of
                  \* the one Parser of the Pipeline
  crashed,        \* the process has died
  cancelled,      \* the context of a direct IndexDirectory call is cancelled
  faults,         \* injected environment faults so far
  history,        \* per repository: what the last run left in the graph, when
                  \* it ended with UpdateRepositoryStats and no other run of
                  \* the repository was active during it
  call            \* the call a test or a request makes to one function of
                  \* the code: its name, its arguments and what it returned

\* ------------------------------------------------------------------------
\* The git service: the checkout directory of a repository url
\* ------------------------------------------------------------------------
\* A url is scheme ++ [host] ++ owner/name ++ [".git"]: "https://" and
\* "http://" urls, the ssh form "git@host:owner/name" and, with no scheme,
\* the path "owner/name".
Schemes == {"https://", "http://", "git@", ""}

Urls == [scheme : Schemes, owner : {"a", "b"}, name : {"repo", "vendor"}, git : BOOLEAN]

\* ExtractRepoName(url), as the path segments of the name: the suffix .git
\* is removed; of an http(s) url the part after the last "/"; of a url
\* with ":" the part after the last "/" of what follows the first ":";
\* else the url itself
ExtractRepoName(url) ==
  LET trimmed == [url EXCEPT !.git = FALSE]
  IN IF trimmed.scheme \in {"https://", "http://"} THEN << trimmed.name >>
     ELSE IF trimmed.scheme = "git@" THEN << trimmed.name >>
     ELSE << trimmed.owner, trimmed.name >>

\* repoPath := filepath.Join(s.basePath, repoName), as path segments
RepoPath(url) == << "repos" >> \o ExtractRepoName(url)

\* ------------------------------------------------------------------------
\* The working trees (fixed: the directories do not change between runs)
\* ------------------------------------------------------------------------
\* base name of the checkout directory of each repository ("rp": the
\* directory of a direct IndexDirectory call, "rw": the repository of a
\* single WriteIndexResult call, "rt": a direct IndexDirectory call on the
\* tree that the call carries, "rs": a direct IndexDirectory call on a
\* directory of more files than the semaphore has slots, "rx": the
\* repository of a single WriteIndexResult call next to r2, "rn": a direct
\* IndexDirectory call on the checkout directory of the url that the call
\* carries)
RootName(r) ==
  IF r = "r1" THEN "alpha" ELSE IF r = "r2" THEN "beta"
  ELSE IF r = "rn" THEN RepoPath(call.url)[Len(RepoPath(call.url))]
  ELSE "work"

\* The regular files below the root in the lexical order of filepath.Walk.
\* rel: path relative to the root, dirs: the directories between the root
\* and the file, ext: the extension of the file name.
DirEntries(r) ==
  IF r = "r1"
  THEN << [rel |-> "README.md",   dirs |-> << >>,               ext |-> ".md"],
          [rel |-> "a.go",        dirs |-> << >>,               ext |-> ".go"],
          [rel |-> "b.go",        dirs |-> << >>,               ext |-> ".go"],
          [rel |-> "vendor/v.go", dirs |-> << "vendor" >>,      ext |-> ".go"] >>
  ELSE IF r = "r2"
  THEN << [rel |-> "a.go",        dirs |-> << >>,               ext |-> ".go"],
          [rel |-> "lib/build/x.go", dirs |-> << "lib", "build" >>, ext |-> ".go"] >>
  ELSE IF r = "rt"
  THEN call.tree
  ELSE IF r = "rx"
  THEN << [rel |-> "a.go",        dirs |-> << >>,               ext |-> ".go"],
          [rel |-> "b.java",      dirs |-> << >>,               ext |-> ".java"] >>
  ELSE IF r = "rn"
  THEN << [rel |-> "a.go",        dirs |-> << >>,               ext |-> ".go"],
          [rel |-> "lib/b.py",    dirs |-> << "lib" >>,         ext |-> ".py"],
          [rel |-> "vendor/v.go", dirs |-> << "vendor" >>,      ext |-> ".go"] >>
  ELSE IF r = "rs"
  THEN << [rel |-> "s1.go",       dirs |-> << >>,               ext |-> ".go"],
          [rel |-> "s2.go",       dirs |-> << >>,               ext |-> ".go"],
          [rel |-> "s3.go",       dirs |-> << >>,               ext |-> ".go"],
          [rel |-> "s4.go",       dirs |-> << >>,               ext |-> ".go"],
          [rel |-> "s5.go",       dirs |-> << >>,               ext |-> ".go"] >>
  ELSE IF r = "rw"
  THEN << [rel |-> "a.py",        dirs |-> << >>,               ext |-> ".py"],
          [rel |-> "b.py",        dirs |-> << >>,               ext |-> ".py"],
          [rel |-> "c.py",        dirs |-> << >>,               ext |-> ".py"] >>
  ELSE << [rel |-> ".py",         dirs |-> << >>,               ext |-> ".py"],
          [rel |-> "a.go",        dirs |-> << >>,               ext |-> ".go"],
          [rel |-> "b.go",        dirs |-> << >>,               ext |-> ".go"],
          [rel |-> "node_modules/m.js", dirs |-> << "node_modules" >>, ext |-> ".js"] >>

\* extension of a relative path
ExtOf(r, rel) ==
  LET e == CHOOSE x \in {DirEntries(r)[k] : k \in 1..Len(DirEntries(r))} : x.rel = rel
  IN e.ext

\* The entities the extractor yields for the content of a file (Type is
\* the extractor's entityType string).
SourceEntities(r, rel) ==
  IF r \in {"r1", "rp"} /\ rel = "a.go"
  THEN << [Type |-> "function", Name |-> "f", StartLine |-> 1, EndLine |-> 3,
           FilePath |-> rel, Calls |-> << "g" >>] >>
  ELSE IF r \in {"r1", "rp"} /\ rel = "b.go"
  THEN << [Type |-> "method", Name |-> "g", StartLine |-> 1, EndLine |-> 2,
           FilePath |-> rel, Calls |-> << >>] >>
  ELSE IF r = "r2" /\ rel = "a.go"
  THEN << [Type |-> "function", Name |-> "f", StartLine |-> 1, EndLine |-> 3,
           FilePath |-> rel, Calls |-> << "g" >>],
          [Type |-> "function", Name |-> "g", StartLine |-> 5, EndLine |-> 6,
           FilePath |-> rel, Calls |-> << >>] >>
  ELSE IF r = "rw" /\ rel = "a.py"
  THEN << [Type |-> "function", Name |-> "main", StartLine |-> 1, EndLine |-> 4,
           FilePath |-> rel, Calls |-> << "helper", "Widget" >>] >>
  ELSE IF r = "rw" /\ rel = "b.py"
  THEN << [Type |-> "function", Name |-> "helper", StartLine |-> 1, EndLine |-> 2,
           FilePath |-> rel, Calls |-> << >>],
          [Type |-> "class", Name |-> "Widget", StartLine |-> 4, EndLine |-> 9,
           FilePath |-> rel, Calls |-> << >>] >>
  ELSE IF r = "rw" /\ rel = "c.py"
  THEN << [Type |-> "function", Name |-> "helper", StartLine |-> 1, EndLine |-> 3,
           FilePath |-> rel, Calls |-> << "main" >>] >>
  ELSE IF r = "rx" /\ rel = "a.go"
  THEN << [Type |-> "function", Name |-> "g", StartLine |-> 1, EndLine |-> 3,
           FilePath |-> rel, Calls |-> << "f" >>],
          [Type |-> "function", Name |-> "f", StartLine |-> 5, EndLine |-> 6,
           FilePath |-> rel, Calls |-> << >>] >>
  ELSE IF r = "rx" /\ rel = "b.java"
  THEN << [Type |-> "interface", Name |-> "Op", StartLine |-> 1, EndLine |-> 3,
           FilePath |-> rel, Calls |-> << >>],
          [Type |-> "method", Name |-> "run", StartLine |-> 6, EndLine |-> 8,
           FilePath |-> rel, Calls |-> << "f" >>],
          [Type |-> "method", Name |-> "run", StartLine |-> 12, EndLine |-> 14,
           FilePath |-> rel, Calls |-> << "g" >>] >>
  ELSE << >>

\* ------------------------------------------------------------------------
\* Pure helpers
\* ------------------------------------------------------------------------
Range(s) == {s[k] : k \in 1..Len(s)}

\* a callback that looks at the name of the first directory below the root
\* only
WalkKeepsTopLevel(root, e) ==
  /\ root \notin IgnoredDirs
  /\ (Len(e.dirs) >= 1 => e.dirs[1] \notin IgnoredDirs)
  /\ DetectLanguage(e.ext, TRUE) # ""

\* the walk callback: a directory named in the ignore set returns SkipDir
\* (the root directory is the first one the callback sees); a file is kept
\* when DetectLanguage of its full path is not empty
WalkKeeps(root, e) ==
  /\ root \notin IgnoredDirs
  /\ \A k \in 1..Len(e.dirs) : e.dirs[k] \notin IgnoredDirs
  /\ DetectLanguage(e.ext, TRUE) # ""

RECURSIVE WalkFrom(_, _, _)
WalkFrom(root, entries, k) ==
  IF k > Len(entries) THEN << >>
  ELSE IF WalkKeeps(root, entries[k])
       THEN << entries[k].rel >> \o WalkFrom(root, entries, k + 1)
       ELSE WalkFrom(root, entries, k + 1)

\* the files slice built by filepath.Walk in IndexDirectory
Walk(r) == WalkFrom(RootName(r), DirEntries(r), 1)


\* ------------------------------------------------------------------------
\* The graph store.  A graph G is a record
\*   repos    : Repository nodes [id, status, filesCount, functionsCount],
\*   files    : File nodes, keyed by (repoId, path),
\*   ents     : Function / Method / Class nodes,
\*   contains : CONTAINS edges  << repository id, file key >>,
\*   declares : DECLARES edges  << file key, entity node >>,
\*   calls    : CALLS edges     << entity node, entity node >>.
\* ------------------------------------------------------------------------
EmptyGraph ==
  [repos |-> {}, files |-> {}, ents |-> {}, contains |-> {}, declares |-> {},
   calls |-> {}]

FileKey(f) == << f.repoId, f.path >>

\* MATCH (r:Repository {id: $id}) finds a node
HasRepo(G, id) == \E r \in G.repos : r.id = id

\* the Repository node with the id (GetRepository)
RepoNode(G, id) == CHOOSE r \in G.repos : r.id = id

\* CREATE (r:Repository {... status: $status, filesCount: 0, functionsCount: 0})
CreateRepositoryTx(G, id, status) ==
  [G EXCEPT !.repos = G.repos \cup
     {[id |-> id, status |-> status, filesCount |-> 0, functionsCount |-> 0]}]

\* MATCH (r:Repository {id: $id}) SET r.status = $status
UpdateRepositoryStatus(G, id, status) ==
  [G EXCEPT !.repos = {IF r.id = id THEN [r EXCEPT !.status = status] ELSE r : r \in G.repos}]

\* a clear whose MATCH does not name the repository: it removes the files
\* and entities of every repository
ClearRepositoryAnyRepo(G, id) ==
  [G EXCEPT !.files = {}, !.ents = {}, !.contains = {}, !.declares = {}, !.calls = {}]

\* MATCH (r) OPTIONAL MATCH (r)-[:CONTAINS]->(f:File)
\* OPTIONAL MATCH (f)-[:DECLARES]->(e) DETACH DELETE e, f
ClearRepository(G, id) ==
  IF ~HasRepo(G, id) THEN G
  ELSE LET fkeys == {c[2] : c \in {x \in G.contains : x[1] = id}}
           es    == {d[2] : d \in {x \in G.declares : x[1] \in fkeys}}
       IN [G EXCEPT
             !.files    = {f \in G.files : FileKey(f) \notin fkeys},
             !.ents     = G.ents \ es,
             !.contains = {x \in G.contains : x[2] \notin fkeys},
             !.declares = {x \in G.declares : x[1] \notin fkeys /\ x[2] \notin es},
             !.calls    = {x \in G.calls : x[1] \notin es /\ x[2] \notin es}]

\* the same match, DETACH DELETE e, f, r
DeleteRepository(G, id) ==
  LET C == ClearRepository(G, id)
  IN [C EXCEPT !.repos = {r \in G.repos : r.id # id}]

\* a WriteFile without the MATCH of the Repository node: the File node is
\* merged whether or not the repository exists
WriteFileNoRepoMatch(G, file) ==
  LET node == [repoId |-> file.RepoID, path |-> file.Path, language |-> file.Language]
  IN [G EXCEPT
        !.files    = {f \in G.files : FileKey(f) # FileKey(node)} \cup {node},
        !.contains = IF HasRepo(G, file.RepoID)
                     THEN G.contains \cup {<< file.RepoID, FileKey(node) >>}
                     ELSE G.contains]

\* MATCH (r:Repository {id: $repoId}) MERGE (f:File {repoId, path}) SET ...
\* MERGE (r)-[:CONTAINS]->(f)
WriteFile(G, file) ==
  IF ~HasRepo(G, file.RepoID) THEN G
  ELSE LET node == [repoId |-> file.RepoID, path |-> file.Path, language |-> file.Language]
       IN [G EXCEPT
             !.files    = {f \in G.files : FileKey(f) # FileKey(node)} \cup {node},
             !.contains = G.contains \cup {<< file.RepoID, FileKey(node) >>}]

EntityLabels == {"Function", "Class", "Method"}

\* MATCH (f:File {repoId: $repoId, path: $filePath}) CREATE (e:<label> {...})
\* CREATE (f)-[:DECLARES]->(e); an entity of another type writes nothing
WriteEntity(G, repoID, entity) ==
  LET matched == {f \in G.files : f.repoId = repoID /\ f.path = entity.FilePath}
      base    == [label |-> entity.Type, name |-> entity.Name,
                  startLine |-> entity.StartLine, endLine |-> entity.EndLine,
                  filePath |-> entity.FilePath, repoId |-> repoID]
      same    == {n \in G.ents : [k \in DOMAIN base |-> n[k]] = base}
      node    == [label |-> base.label, name |-> base.name,
                  startLine |-> base.startLine, endLine |-> base.endLine,
                  filePath |-> base.filePath, repoId |-> base.repoId,
                  copy |-> Cardinality(same) + 1]
  IN IF entity.Type \notin EntityLabels \/ matched = {} THEN G
     ELSE [G EXCEPT
             !.ents     = G.ents \cup {node},
             !.declares = G.declares \cup {<< FileKey(f), node >> : f \in matched}]

\* a resolution that looks for the callee in the file of the caller only
WriteCallRelationshipsSameFile(G, entity) ==
  LET callable == {n \in G.ents : n.label \in {"Function", "Method"}}
      callers  == {n \in callable : n.name = entity.Name /\ n.filePath = entity.FilePath}
      callees  == {n \in callable : n.name \in Range(entity.Calls)}
  IN [G EXCEPT !.calls = G.calls \cup
        {p \in callers \X callees : p[2].repoId = p[1].repoId /\ p[2].filePath = p[1].filePath}]

\* a WriteCallRelationships without WHERE callee.repoId = caller.repoId
WriteCallRelationshipsAnyRepo(G, entity) ==
  LET callable == {n \in G.ents : n.label \in {"Function", "Method"}}
      callers  == {n \in callable : n.name = entity.Name /\ n.filePath = entity.FilePath}
      callees  == {n \in callable : n.name \in Range(entity.Calls)}
  IN [G EXCEPT !.calls = G.calls \cup (callers \X callees)]

\* for each called name:
\*   MATCH (caller:Function|Method {name: $callerName, filePath: $filePath})
\*   MATCH (callee:Function|Method {name: $calleeName})
\*   WHERE callee.repoId = caller.repoId  MERGE (caller)-[:CALLS]->(callee)
WriteCallRelationships(G, entity) ==
  LET callable == {n \in G.ents : n.label \in {"Function", "Method"}}
      callers  == {n \in callable : n.name = entity.Name /\ n.filePath = entity.FilePath}
      callees  == {n \in callable : n.name \in Range(entity.Calls)}
  IN [G EXCEPT !.calls = G.calls \cup
        {p \in callers \X callees : p[2].repoId = p[1].repoId}]

\* MATCH (r:Repository {id: $id}) SET r.filesCount, r.functionsCount,
\* r.status = 'ready'
UpdateRepositoryStats(G, repoID, filesCount, entitiesCount) ==
  [G EXCEPT !.repos =
     {IF r.id = repoID
      THEN [r EXCEPT !.filesCount = filesCount, !.functionsCount = entitiesCount,
                     !.status = "ready"]
      ELSE r : r \in G.repos}]


\* ------------------------------------------------------------------------
\* The indexing pipeline: the result and what a worker does with it
\* ------------------------------------------------------------------------
EmptyResult(repoID) ==
  [RepoID |-> repoID, FilesProcessed |-> 0, EntitiesFound |-> 0, Errors |-> << >>,
   Files |-> << >>, Entities |-> << >>]

ErrorOutcomes == {"read", "stat", "extract"}

\* the error processFile returns (the wrapped cause, %w, is left out)
ErrMsg(out) ==
  CASE out = "read" -> "failed to read file"
    [] out = "stat" -> "failed to stat file"
    [] OTHER        -> "extraction failed"

\* the entity type of the models package for a kind of the extractor; a
\* kind without a type of its own (an interface) keeps its name, and no
\* case of WriteEntity writes it
EntityType(kind) ==
  CASE kind = "function" -> "Function"
    [] kind = "method"   -> "Method"
    [] kind = "class"    -> "Class"
    [] OTHER             -> kind

ModelEntities(entities) ==
  [k \in 1..Len(entities) |-> [entities[k] EXCEPT !.Type = EntityType(@)]]

\* the language processFile detects from the relative path
LangOf(repoID, relPath) ==
  DetectLanguage(ExtOf(repoID, relPath), relPath # ExtOf(repoID, relPath))

\* processFile: what it returns for an outcome of its calls.  A read or
\* stat error returns no file; a failed extraction returns the file and
\* the error; "garbage" is an extraction from a parser that two goroutines
\* use at once and that returns a wrong entity list.
ProcessFile(repoID, relPath, out) ==
  [file     |-> IF out \in {"read", "stat"} THEN "nil"
                ELSE [RepoID |-> repoID, Path |-> relPath,
                      Language |-> LangOf(repoID, relPath)],
   entities |-> IF out = "ok" THEN ModelEntities(SourceEntities(repoID, relPath))
                ELSE << >>,
   err      |-> IF out \in ErrorOutcomes THEN ErrMsg(out) ELSE "nil"]

\* a worker that records the error and does not return: it counts the
\* failed file as processed
AggregateResultCountsFailed(result, relPath, pf) ==
  IF pf.err # "nil"
  THEN [result EXCEPT !.Errors = Append(@, relPath \o ": " \o pf.err),
                      !.FilesProcessed = @ + 1]
  ELSE [result EXCEPT !.FilesProcessed = @ + 1,
                      !.Files = Append(@, pf.file),
                      !.Entities = @ \o pf.entities,
                      !.EntitiesFound = @ + Len(pf.entities)]

\* the block of the worker under mu.Lock(): an error is recorded as
\* "<relPath>: <err>" and the worker returns; otherwise the file is counted
AggregateResult(result, relPath, pf) ==
  IF pf.err # "nil"
  THEN [result EXCEPT !.Errors = Append(@, relPath \o ": " \o pf.err)]
  ELSE [result EXCEPT !.FilesProcessed = @ + 1,
                      !.Files = Append(@, pf.file),
                      !.Entities = @ \o pf.entities,
                      !.EntitiesFound = @ + Len(pf.entities)]

\* what a repository owns in the graph: the paths of its File nodes, its
\* entity nodes by name, kind and line range, and its counts
Owned(G, r) ==
  [files |-> {f.path : f \in {x \in G.files : x.repoId = r}},
   ents  |-> {[label |-> n.label, name |-> n.name, startLine |-> n.startLine,
               endLine |-> n.endLine, filePath |-> n.filePath, copy |-> n.copy]
              : n \in {x \in G.ents : x.repoId = r}},
   filesCount     |-> IF HasRepo(G, r) THEN RepoNode(G, r).filesCount ELSE 0,
   functionsCount |-> IF HasRepo(G, r) THEN RepoNode(G, r).functionsCount ELSE 0]

\* ------------------------------------------------------------------------
\* The store an earlier session of the server has left: a repository that
\* one index run without any failure has indexed
\* ------------------------------------------------------------------------
\* the outcome of processFile for a file when nothing fails
PlainOutcome(repoID, relPath) ==
  IF LangOf(repoID, relPath) \in Languages THEN "ok" ELSE "extract"

RECURSIVE PlainResult(_, _, _)
PlainResult(repoID, files, k) ==
  IF k = 0 THEN EmptyResult(repoID)
  ELSE AggregateResult(PlainResult(repoID, files, k - 1), files[k],
                       ProcessFile(repoID, files[k], PlainOutcome(repoID, files[k])))

RECURSIVE WriteFiles(_, _, _)
WriteFiles(G, result, k) ==
  IF k = 0 THEN G ELSE WriteFile(WriteFiles(G, result, k - 1), result.Files[k])

RECURSIVE WriteEntities(_, _, _)
WriteEntities(G, result, k) ==
  IF k = 0 THEN G
  ELSE WriteEntity(WriteEntities(G, result, k - 1), result.RepoID, result.Entities[k])

RECURSIVE WriteCalls(_, _, _)
WriteCalls(G, result, k) ==
  IF k = 0 THEN G
  ELSE IF Len(result.Entities[k].Calls) > 0
       THEN WriteCallRelationships(WriteCalls(G, result, k - 1), result.Entities[k])
       ELSE WriteCalls(G, result, k - 1)

\* WriteIndexResult when no transaction fails: the files, the entities, the
\* call relationships, then the stats
WriteIndexResult(G, result) ==
  LET G1 == WriteFiles(G, result, Len(result.Files))
      G2 == WriteEntities(G1, result, Len(result.Entities))
      G3 == WriteCalls(G2, result, Len(result.Entities))
  IN UpdateRepositoryStats(G3, result.RepoID, Len(result.Files), result.EntitiesFound)

IndexedGraph(r) ==
  WriteIndexResult(CreateRepositoryTx(EmptyGraph, r, "pending"),
                   PlainResult(r, Walk(r), Len(Walk(r))))

vars ==
  << graph, deleted, runs, parserUsers, crashed, cancelled, faults, history, call >>

\* no call of a single function is under way
NoCall == [op |-> "none"]

\* pc: the position of the run ("idle": not started, "done": ended);
\* caller: "handler" (indexRepository) or
\* "direct" (a caller of IndexDirectory with its own context);
\* files, wpc, wout: the walked files, and per file the position of its
\* worker goroutine and the outcome of processFile; mu: the worker holding
\* the mutex (0: free); err: the error IndexDirectory returned.
\* failed, cleared, wroteGone, overlap record what happened to the run so
\* far: its first failing step, the number of File nodes its
\* ClearRepository has just removed, whether it ran a WriteFile or
\* WriteEntity transaction after its repository was deleted, and whether
\* another run of the same repository was active during it.
IdleRun ==
  [pc |-> "idle", repo |-> "none", caller |-> "none", files |-> << >>,
   wpc |-> << >>, wout |-> << >>, mu |-> 0, result |-> EmptyResult("none"),
   err |-> "none", idx |-> 0, failed |-> "none", cleared |-> 0,
   wroteGone |-> FALSE, overlap |-> FALSE]

NewRun(r, caller, pc, overlap) ==
  [IdleRun EXCEPT !.pc = pc, !.repo = r, !.caller = caller,
                  !.result = EmptyResult(r), !.overlap = overlap]

\* an index run that has ended (indexRepository has returned)
DoneRun == [IdleRun EXCEPT !.pc = "done"]

Free(i) == runs[i].pc = "idle"
Ended(i) == runs[i].pc = "done"
Active(i) == ~Free(i) /\ ~Ended(i)

\* the next index run to start
FreeSlot(i) == Free(i) /\ \A j \in RunIds : Free(j) => i <= j

\* the history entry of a run: the outcomes of processFile in the run and
\* what the repository owns after it
Snapshot(G, r, outcomes) == << [outcomes |-> outcomes, owned |-> Owned(G, r)] >>

\* the server starts on an empty store or on the store of an earlier
\* session in which r2 was indexed
Init ==
  /\ \/ /\ graph = EmptyGraph
        /\ history = [r \in RepoIds |-> << >>]
     \/ /\ graph = IndexedGraph("r2")
        /\ history = [r \in RepoIds |->
             IF r = "r2"
             THEN Snapshot(IndexedGraph(r), r,
                           {PlainOutcome(r, f) : f \in Range(Walk(r))})
             ELSE << >>]
  /\ deleted = {}
  /\ runs = [i \in RunIds |-> IdleRun]
  /\ parserUsers = {}
  /\ crashed = FALSE
  /\ cancelled = FALSE
  /\ faults = 0
  /\ call = NoCall

\* ------------------------------------------------------------------------
\* IndexDirectory
\* ------------------------------------------------------------------------
Workers(i) == 1..Len(runs[i].files)

\* a semaphore that a worker acquires only after processFile has returned
HoldSemAfterProcessFile(i) ==
  {k \in Workers(i) : runs[i].wpc[k] \in {"parsed", "locked"}}

\* the workers that hold a slot of the semaphore
HoldSem(i) ==
  {k \in Workers(i) : runs[i].wpc[k] \in {"parsing", "racing", "parsed", "locked"}}

\* first entity at or after position j that has calls
RECURSIVE NextCaller(_, _)
NextCaller(entities, j) ==
  IF j > Len(entities) \/ Len(entities[j].Calls) > 0 THEN j
  ELSE NextCaller(entities, j + 1)

\* a writer that resolves the calls of an entity right after it has written
\* the entity
WritePosCallsEarly(result, phase, j) ==
  LET ents(n) == IF n <= Len(result.Entities) THEN [pc |-> "writeEntities", idx |-> n]
                 ELSE [pc |-> "stats", idx |-> 0]
  IN CASE phase = "writeFiles" ->
            IF j <= Len(result.Files) THEN [pc |-> "writeFiles", idx |-> j] ELSE ents(1)
       [] phase = "writeEntities" ->
            IF Len(result.Entities[j - 1].Calls) > 0
            THEN [pc |-> "writeCalls", idx |-> j - 1] ELSE ents(j)
       [] OTHER -> ents(j)

\* the next transaction of WriteIndexResult: the files in order, then the
\* entities in order, then the entities that have calls, then the stats
WritePos(result, phase, j) ==
  LET fin(c) == IF c.idx > Len(result.Entities) THEN [pc |-> "stats", idx |-> 0] ELSE c
      calls  == fin([pc |-> "writeCalls", idx |-> NextCaller(result.Entities, 1)])
      ents   == IF Len(result.Entities) >= 1 THEN [pc |-> "writeEntities", idx |-> 1]
                ELSE calls
  IN CASE phase = "writeFiles" ->
            IF j <= Len(result.Files) THEN [pc |-> "writeFiles", idx |-> j] ELSE ents
       [] phase = "writeEntities" ->
            IF j <= Len(result.Entities) THEN [pc |-> "writeEntities", idx |-> j]
            ELSE calls
       [] OTHER ->
            fin([pc |-> "writeCalls", idx |-> NextCaller(result.Entities, j)])

\* All workers are done: wg.Wait() returns and IndexDirectory returns
\* result, nil.  A direct caller has its result; indexRepository goes on to
\* the first transaction of WriteIndexResult.
Returned(run) ==
  IF \E k \in 1..Len(run.files) : run.wpc[k] # "done" THEN run
  ELSE IF run.caller = "handler"
       THEN LET p == WritePos(run.result, "writeFiles", 1)
            IN [run EXCEPT !.err = "nil", !.pc = p.pc, !.idx = p.idx]
       ELSE [run EXCEPT !.err = "nil", !.pc = "returned"]

\* processFile has returned with outcome out.  What remains of the worker
\* (mu.Lock, the update of the result, mu.Unlock, <-sem, wg.Done) touches
\* only the result of its own IndexDirectory call: in an index run of the
\* handler it is taken together with the return of processFile, in a direct
\* call the worker goes on step by step (LockResult, AppendResult).
Settle(run, k, out) ==
  IF run.caller = "handler"
  THEN Returned([run EXCEPT !.wpc[k] = "done", !.wout[k] = out,
                            !.result = AggregateResult(run.result, run.files[k],
                                         ProcessFile(run.repo, run.files[k], out))])
  ELSE [run EXCEPT !.wpc[k] = "parsed", !.wout[k] = out]

\* filepath.Walk, then one goroutine per file (wg.Add, go func)
Walked(run) ==
  LET files == Walk(run.repo)
  IN Returned([run EXCEPT !.pc = "workers", !.files = files,
                          !.wpc = [k \in 1..Len(files) |-> "queued"],
                          !.wout = [k \in 1..Len(files) |-> "none"]])

\* a direct call of IndexDirectory walks the directory: the error of
\* filepath.Walk is returned as the error of IndexDirectory
WalkStep(i) ==
  /\ ~crashed
  /\ runs[i].pc = "walk"
  /\ \/ /\ runs' = [runs EXCEPT ![i] = Walked(runs[i])]
        /\ UNCHANGED faults
     \/ /\ faults < MaxFaults
        /\ faults' = faults + 1
        /\ runs' = [runs EXCEPT ![i].pc = "returned", ![i].err = "walk"]
  /\ UNCHANGED << call, graph, deleted, parserUsers, crashed, cancelled, history >>

\* the workers in Parser.Parse are now in it together with another one
Racing(rs, users) ==
  [j \in RunIds |->
     [rs[j] EXCEPT !.wpc = [k \in DOMAIN rs[j].wpc |->
        IF << j, k >> \in users THEN "racing" ELSE rs[j].wpc[k]]]]

\* sem <- struct{}{}; processFile up to the call of Parser.Parse: ReadFile,
\* Stat, DetectLanguage(relPath), GetLanguage.  A language without grammar
\* fails before the parser is touched; otherwise the worker enters
\* SetLanguage / ParseCtx on the parser of the pipeline, whoever is in it.
StartFile(i, k) ==
  /\ ~crashed
  /\ runs[i].pc = "workers"
  /\ runs[i].wpc[k] = "queued"
  /\ Cardinality(HoldSem(i)) < SemCapacity
  /\ LET lang == LangOf(runs[i].repo, runs[i].files[k])
     IN \/ \E out \in {"read", "stat"} :
             /\ faults < MaxFaults
             /\ faults' = faults + 1
             /\ runs' = [runs EXCEPT ![i] = Settle(runs[i], k, out)]
             /\ UNCHANGED parserUsers
        \/ /\ lang \notin Languages
           /\ runs' = [runs EXCEPT ![i] = Settle(runs[i], k, "extract")]
           /\ UNCHANGED << faults, parserUsers >>
        \/ /\ lang \in Languages
           /\ parserUsers' = parserUsers \cup {<< i, k >>}
           /\ runs' = IF parserUsers = {}
                      THEN [runs EXCEPT ![i].wpc[k] = "parsing"]
                      ELSE Racing(runs, parserUsers')
           /\ UNCHANGED faults
  /\ UNCHANGED << call, graph, deleted, crashed, cancelled, history >>

\* the outcomes of ParseCtx: it succeeds; with a cancelled context it may
\* also return the context's error; a call that ran while another
\* goroutine used the same parser has undefined behaviour (a wrong tree, an
\* error)
ParseOutcomes(run, k) ==
  {"ok"}
  \cup (IF cancelled /\ run.caller = "direct" THEN {"extract"} ELSE {})
  \cup (IF run.wpc[k] = "racing" THEN {"extract", "garbage"} ELSE {})

\* Parser.Parse returns and Extract walks the tree
EndParse(i, k) ==
  /\ ~crashed
  /\ runs[i].pc = "workers"
  /\ runs[i].wpc[k] \in {"parsing", "racing"}
  /\ \E out \in ParseOutcomes(runs[i], k) :
       runs' = [runs EXCEPT ![i] = Settle(runs[i], k, out)]
  /\ parserUsers' = parserUsers \ {<< i, k >>}
  /\ UNCHANGED << call, graph, deleted, crashed, cancelled, faults, history >>

\* mu.Lock() in a direct call
LockResult(i, k) ==
  /\ ~crashed
  /\ runs[i].pc = "workers"
  /\ runs[i].wpc[k] = "parsed"
  /\ runs[i].mu = 0
  /\ runs' = [runs EXCEPT ![i].wpc[k] = "locked", ![i].mu = k]
  /\ UNCHANGED << call, graph, deleted, parserUsers, crashed, cancelled, faults, history >>

\* the update of the shared result, then the deferred mu.Unlock(), <-sem
\* and wg.Done()
AppendResult(i, k) ==
  /\ ~crashed
  /\ runs[i].pc = "workers"
  /\ runs[i].wpc[k] = "locked"
  /\ runs' = [runs EXCEPT ![i].wpc[k] = "done", ![i].mu = 0,
                ![i].result = AggregateResult(runs[i].result, runs[i].files[k],
                                ProcessFile(runs[i].repo, runs[i].files[k], runs[i].wout[k]))]
  /\ UNCHANGED << call, graph, deleted, parserUsers, crashed, cancelled, faults, history >>

\* wg.Wait() returns in a direct call
ReturnResult(i) ==
  /\ ~crashed
  /\ runs[i].pc = "workers"
  /\ runs' = [runs EXCEPT ![i] = Returned(runs[i])]
  /\ runs'[i].pc = "returned"
  /\ UNCHANGED << call, graph, deleted, parserUsers, crashed, cancelled, faults, history >>

\* two goroutines in the one sitter.Parser: undefined behaviour of the C
\* library, the process may die
Crash ==
  /\ ~crashed
  /\ \E i \in RunIds : \E k \in Workers(i) : runs[i].wpc[k] = "racing"
  /\ crashed' = TRUE
  /\ UNCHANGED << call, graph, deleted, runs, parserUsers, cancelled, faults, history >>

\* the caller of a direct IndexDirectory call cancels its context while
\* files are still being processed
CancelContext ==
  /\ ~crashed
  /\ ~cancelled
  /\ \E i \in RunIds :
       /\ runs[i].caller = "direct"
       /\ runs[i].pc = "workers"
       /\ \E k \in Workers(i) : runs[i].wpc[k] # "done"
  /\ cancelled' = TRUE
  /\ UNCHANGED << call, graph, deleted, runs, parserUsers, crashed, faults, history >>

\* ------------------------------------------------------------------------
\* The handler: CreateRepository, ReindexRepository, DeleteRepository
\* ------------------------------------------------------------------------
SameRepoActive(r) == \E j \in RunIds : Active(j) /\ runs[j].repo = r

\* go h.indexRepository(repo): index run i starts
Spawn(i, r) ==
  [j \in RunIds |->
     IF j = i THEN NewRun(r, "handler", "clone", SameRepoActive(r))
     ELSE IF Active(j) /\ runs[j].repo = r THEN [runs[j] EXCEPT !.overlap = TRUE]
     ELSE runs[j]]

\* POST /repositories: the node is created with status pending and the
\* index run is started
CreateRepository(r) ==
  /\ ~crashed
  /\ r \notin deleted
  /\ ~HasRepo(graph, r)
  /\ \E i \in RunIds :
       /\ FreeSlot(i)
       /\ runs' = Spawn(i, r)
  /\ graph' = CreateRepositoryTx(graph, r, "pending")
  /\ UNCHANGED << call, deleted, parserUsers, crashed, cancelled, faults, history >>

\* POST /repositories/:id/reindex: GetRepository finds the node, the status
\* is set to indexing and the index run is started
ReindexRepository(r) ==
  /\ ~crashed
  /\ HasRepo(graph, r)
  /\ \E i \in RunIds :
       /\ FreeSlot(i)
       /\ runs' = Spawn(i, r)
  /\ graph' = UpdateRepositoryStatus(graph, r, "indexing")
  /\ UNCHANGED << call, deleted, parserUsers, crashed, cancelled, faults, history >>

\* DELETE /repositories/:id
DeleteRepositoryReq(r) ==
  /\ ~crashed
  /\ HasRepo(graph, r)
  /\ graph' = DeleteRepository(graph, r)
  /\ deleted' = deleted \cup {r}
  /\ history' = [history EXCEPT ![r] = << >>]
  /\ UNCHANGED << call, runs, parserUsers, crashed, cancelled, faults >>

\* ------------------------------------------------------------------------
\* indexRepository
\* ------------------------------------------------------------------------
\* gitSvc.Clone, then h.writer.ClearRepository(ctx, repo.ID).  A failed
\* clone sets the status to error and ends the run; the error ClearRepository
\* returns is dropped and the run goes on.
ClearStep(i) ==
  /\ ~crashed
  /\ runs[i].pc = "clone"
  /\ LET r == runs[i].repo
     IN \/ /\ graph' = ClearRepository(graph, r)
           /\ runs' = [runs EXCEPT ![i].pc = "setIndexing",
                         ![i].cleared = Cardinality({f \in graph.files : f.repoId = r})]
           /\ UNCHANGED << faults, history >>
        \/ /\ faults < MaxFaults
           /\ faults' = faults + 1
           /\ UNCHANGED << graph, history >>
           /\ runs' = [runs EXCEPT ![i].pc = "setIndexing", ![i].failed = "clear"]
        \/ /\ faults < MaxFaults
           /\ faults' = faults + 1
           /\ graph' = UpdateRepositoryStatus(graph, r, "error")
           /\ history' = [history EXCEPT ![r] = << >>]
           /\ runs' = [runs EXCEPT ![i] = DoneRun]
  /\ UNCHANGED << call, deleted, parserUsers, crashed, cancelled >>

\* db.UpdateRepositoryStatus(..., "indexing"), whose error is dropped, then
\* IndexDirectory up to the start of the workers.  The error of
\* filepath.Walk is the error of IndexDirectory.
SetIndexingStep(i) ==
  /\ ~crashed
  /\ runs[i].pc = "setIndexing"
  /\ LET r   == runs[i].repo
         run == [runs[i] EXCEPT !.cleared = 0]
     IN \/ /\ graph' = UpdateRepositoryStatus(graph, r, "indexing")
           /\ runs' = [runs EXCEPT ![i] = Walked(run)]
           /\ UNCHANGED faults
        \/ /\ faults < MaxFaults
           /\ faults' = faults + 1
           /\ graph' = UpdateRepositoryStatus(graph, r, "indexing")
           /\ runs' = [runs EXCEPT ![i] = [run EXCEPT !.pc = "setError", !.err = "walk",
                                                     !.failed = IF @ = "none" THEN "walk" ELSE @]]
        \/ /\ faults < MaxFaults
           /\ faults' = faults + 1
           /\ UNCHANGED graph
           /\ runs' = [runs EXCEPT ![i] = Walked(run)]
  /\ UNCHANGED << call, deleted, parserUsers, crashed, cancelled, history >>

\* one transaction of WriteIndexResult: it commits G, or it fails and
\* WriteIndexResult returns its error
WriteStep(i, phase, step, G) ==
  /\ ~crashed
  /\ runs[i].pc = phase
  /\ \/ /\ graph' = G
        /\ LET p == WritePos(runs[i].result, phase, runs[i].idx + 1)
           IN runs' = [runs EXCEPT ![i].pc = p.pc, ![i].idx = p.idx,
                         ![i].wroteGone = @ \/ (runs[i].repo \in deleted /\ phase # "writeCalls")]
        /\ UNCHANGED faults
     \/ /\ faults < MaxFaults
        /\ faults' = faults + 1
        /\ UNCHANGED graph
        /\ runs' = [runs EXCEPT ![i].pc = "setError",
                      ![i].failed = IF @ = "none" THEN step ELSE @]
  /\ UNCHANGED << call, deleted, parserUsers, crashed, cancelled, history >>

WriteFileStep(i) ==
  /\ runs[i].pc = "writeFiles"
  /\ WriteStep(i, "writeFiles", "WriteFile",
               WriteFile(graph, runs[i].result.Files[runs[i].idx]))

WriteEntityStep(i) ==
  /\ runs[i].pc = "writeEntities"
  /\ WriteStep(i, "writeEntities", "WriteEntity",
               WriteEntity(graph, runs[i].result.RepoID, runs[i].result.Entities[runs[i].idx]))

WriteCallsStep(i) ==
  /\ runs[i].pc = "writeCalls"
  /\ WriteStep(i, "writeCalls", "WriteCallRelationships",
               WriteCallRelationships(graph, runs[i].result.Entities[runs[i].idx]))

\* UpdateRepositoryStats(ctx, result.RepoID, len(result.Files),
\* result.EntitiesFound): the last transaction of WriteIndexResult, after
\* which indexRepository returns
StatsStep(i) ==
  /\ ~crashed
  /\ runs[i].pc = "stats"
  /\ LET r == runs[i].repo
     IN \/ /\ graph' = UpdateRepositoryStats(graph, r, Len(runs[i].result.Files),
                                             runs[i].result.EntitiesFound)
           /\ runs' = [runs EXCEPT ![i] = DoneRun]
           /\ history' = [history EXCEPT ![r] =
                IF runs[i].overlap \/ ~HasRepo(graph, r) THEN << >>
                ELSE Snapshot(graph', r, Range(runs[i].wout))]
           /\ UNCHANGED faults
        \/ /\ faults < MaxFaults
           /\ faults' = faults + 1
           /\ UNCHANGED << graph, history >>
           /\ runs' = [runs EXCEPT ![i].pc = "setError",
                         ![i].failed = IF @ = "none" THEN "UpdateRepositoryStats" ELSE @]
  /\ UNCHANGED << call, deleted, parserUsers, crashed, cancelled >>

\* db.UpdateRepositoryStatus(..., "error"); return
SetErrorStep(i) ==
  /\ ~crashed
  /\ runs[i].pc = "setError"
  /\ graph' = UpdateRepositoryStatus(graph, runs[i].repo, "error")
  /\ history' = [history EXCEPT ![runs[i].repo] = << >>]
  /\ runs' = [runs EXCEPT ![i] = DoneRun]
  /\ UNCHANGED << call, deleted, parserUsers, crashed, cancelled, faults >>

\* ------------------------------------------------------------------------
\* Specifications
\* ------------------------------------------------------------------------
\* a step of a worker goroutine of run i
WorkerStep(i) == \E k \in Workers(i) : StartFile(i, k) \/ EndParse(i, k)

\* a step of the goroutine of index run i or of one of its workers
RunStep(i) ==
  \/ ClearStep(i)
  \/ SetIndexingStep(i)
  \/ WorkerStep(i)
  \/ WriteFileStep(i)
  \/ WriteEntityStep(i)
  \/ WriteCallsStep(i)
  \/ StatsStep(i)
  \/ SetErrorStep(i)

\* the server: requests, index runs, the store
Next ==
  \/ \E r \in RepoIds : CreateRepository(r)
  \/ \E r \in RepoIds : ReindexRepository(r)
  \/ \E r \in RepoIds : DeleteRepositoryReq(r)
  \/ \E i \in RunIds : RunStep(i)
  \/ Crash

Spec == Init /\ [][Next]_vars

\* every index run and every worker that can take a step takes one
FairSpec == Spec /\ \A i \in RunIds : WF_vars(RunStep(i))

\* one direct call IndexDirectory(ctx, "work", "rp") on a pipeline
PipelineInit ==
  /\ graph = EmptyGraph
  /\ history = [r \in RepoIds |-> << >>]
  /\ deleted = {}
  /\ runs = [i \in RunIds |-> IF i = 1 THEN NewRun("rp", "direct", "walk", FALSE) ELSE IdleRun]
  /\ parserUsers = {}
  /\ crashed = FALSE
  /\ cancelled = FALSE
  /\ faults = 0
  /\ call = NoCall

PipelineNext ==
  \/ WalkStep(1)
  \/ \E k \in Workers(1) : StartFile(1, k)
  \/ \E k \in Workers(1) : EndParse(1, k)
  \/ \E k \in Workers(1) : LockResult(1, k)
  \/ \E k \in Workers(1) : AppendResult(1, k)
  \/ ReturnResult(1)
  \/ CancelContext
  \/ Crash

PipelineSpec == PipelineInit /\ [][PipelineNext]_vars

\* one direct call IndexDirectory(ctx, "work", "rs"): five files
SemInit ==
  /\ graph = EmptyGraph
  /\ history = [r \in RepoIds |-> << >>]
  /\ deleted = {}
  /\ runs = [i \in RunIds |-> IF i = 1 THEN NewRun("rs", "direct", "walk", FALSE) ELSE IdleRun]
  /\ parserUsers = {}
  /\ crashed = FALSE
  /\ cancelled = FALSE
  /\ faults = 0
  /\ call = NoCall

SemSpec == SemInit /\ [][PipelineNext]_vars

\* one direct call IndexDirectory(ctx, repoPath, "rn") on the checkout
\* directory of a url
RootInit ==
  /\ graph = EmptyGraph
  /\ history = [r \in RepoIds |-> << >>]
  /\ deleted = {}
  /\ runs = [i \in RunIds |-> IF i = 1 THEN NewRun("rn", "direct", "walk", FALSE) ELSE IdleRun]
  /\ parserUsers = {}
  /\ crashed = FALSE
  /\ cancelled = FALSE
  /\ faults = 0
  /\ \E u \in Urls : call = [op |-> "IndexDirectory", url |-> u]

RootSpec == RootInit /\ [][PipelineNext]_vars

\* ------------------------------------------------------------------------
\* indexRepository: Clone for the repositories of two registrations
\* ------------------------------------------------------------------------
\* two repositories are registered with different urls; no directory is
\* cloned yet
CloneInit ==
  /\ graph = EmptyGraph
  /\ history = [r \in RepoIds |-> << >>]
  /\ deleted = {}
  /\ runs = [i \in RunIds |-> IdleRun]
  /\ parserUsers = {}
  /\ crashed = FALSE
  /\ cancelled = FALSE
  /\ faults = 0
  /\ \E u1, u2 \in Urls :
       /\ u1 # u2
       /\ call = [op |-> "Clone", urls |-> << u1, u2 >>, cloned |-> {},
                  ret |-> [k \in 1..2 |-> [path |-> << >>, err |-> "none"]]]

\* the working tree at a path: the url it was cloned from
OriginOf(cloned, path) == {c.url : c \in {x \in cloned : x.path = path}}

\* Clone(ctx, url, branch) for registration k: a directory that has a
\* .git is pulled and returned, whatever it was cloned from; else git
\* clone url repoPath; either command may fail
CloneStep(k) ==
  /\ call.op = "Clone"
  /\ call.ret[k].err = "none"
  /\ LET url  == call.urls[k]
         path == RepoPath(url)
     IN \/ call' = [call EXCEPT
                      !.cloned = IF OriginOf(@, path) # {} THEN @
                                 ELSE @ \cup {[path |-> path, url |-> url]},
                      !.ret[k] = [path |-> path, err |-> "nil"]]
        \/ call' = [call EXCEPT
                      !.ret[k] = IF OriginOf(call.cloned, path) # {}
                                 THEN [path |-> path, err |-> "git pull failed"]
                                 ELSE [path |-> << >>, err |-> "git clone failed"]]
  /\ UNCHANGED << graph, deleted, runs, parserUsers, crashed, cancelled, faults, history >>

CloneNext == \E k \in 1..2 : CloneStep(k)

CloneSpec == CloneInit /\ [][CloneNext]_vars

\* the sequences that hold every element of S once
Orders(S) == {s \in [1..Cardinality(S) -> S] : Range(s) = S}

\* the result after the first k workers of files have run their block
\* under mu, in the order of files, where out[f] is the outcome of
\* processFile for file f
RECURSIVE FoldResult(_, _, _, _)
FoldResult(repoID, files, out, k) ==
  IF k = 0 THEN EmptyResult(repoID)
  ELSE AggregateResult(FoldResult(repoID, files, out, k - 1), files[k],
                       ProcessFile(repoID, files[k], out[files[k]]))

\* indexRepository at result, err := pipeline.IndexDirectory(...) with
\* err == nil: the workers have appended in the order of files
WritingRun(r, files, out) ==
  LET res == FoldResult(r, files, out, Len(files))
      p   == WritePos(res, "writeFiles", 1)
  IN [NewRun(r, "handler", p.pc, FALSE) EXCEPT
        !.files = files, !.wpc = [k \in 1..Len(files) |-> "done"],
        !.wout = [k \in 1..Len(files) |-> out[files[k]]],
        !.result = res, !.err = "nil", !.idx = p.idx]

\* one call WriteIndexResult(ctx, result) for the cleared repository "rw",
\* on a store that holds nothing else or the indexed repository r2; the
\* result is any that IndexDirectory can return for the tree of "rw" when
\* each extraction succeeds or fails
WriterInit ==
  /\ \E G \in {EmptyGraph, IndexedGraph("r2")} :
       graph = UpdateRepositoryStatus(CreateRepositoryTx(G, "rw", "pending"),
                                      "rw", "indexing")
  /\ history = [r \in RepoIds \cup {"rw"} |-> << >>]
  /\ deleted = {}
  /\ \E files \in Orders(Range(Walk("rw"))) :
       \E out \in [Range(Walk("rw")) -> {"ok", "extract"}] :
         runs = [i \in RunIds |-> IF i = 1 THEN WritingRun("rw", files, out) ELSE IdleRun]
  /\ parserUsers = {}
  /\ crashed = FALSE
  /\ cancelled = FALSE
  /\ faults = 0
  /\ call = NoCall

WriterNext ==
  \/ WriteFileStep(1)
  \/ WriteEntityStep(1)
  \/ WriteCallsStep(1)
  \/ StatsStep(1)
  \/ SetErrorStep(1)

WriterSpec == WriterInit /\ [][WriterNext]_vars

\* one call WriteIndexResult(ctx, result) for the cleared repository "rx",
\* on a store that holds nothing else or the indexed repository r2, which
\* has a file of the same path with functions of the same names
StoreInit ==
  /\ \E G \in {EmptyGraph, IndexedGraph("r2")} :
       /\ graph = UpdateRepositoryStatus(CreateRepositoryTx(G, "rx", "pending"),
                                         "rx", "indexing")
       /\ history = [r \in RepoIds \cup {"rx"} |->
            IF HasRepo(G, r)
            THEN Snapshot(G, r, {PlainOutcome(r, f) : f \in Range(Walk(r))})
            ELSE << >>]
  /\ deleted = {}
  /\ \E files \in Orders(Range(Walk("rx"))) :
       \E out \in [Range(Walk("rx")) -> {"ok", "extract"}] :
         runs = [i \in RunIds |-> IF i = 1 THEN WritingRun("rx", files, out) ELSE IdleRun]
  /\ parserUsers = {}
  /\ crashed = FALSE
  /\ cancelled = FALSE
  /\ faults = 0
  /\ call = NoCall

StoreSpec == StoreInit /\ [][WriterNext]_vars

\* the directory paths of at most MaxDepth names
DirPaths(names) == UNION {[1..n -> names] : n \in 0..MaxDepth}

\* filepath.Join of the directories and the file name
RECURSIVE JoinPath(_, _)
JoinPath(dirs, name) ==
  IF dirs = << >> THEN name ELSE Head(dirs) \o "/" \o JoinPath(Tail(dirs), name)

\* the working trees of two files, each below any path of directories;
\* every name on the path of the first file sorts before every name on the
\* path of the second, so the entries are in the order of filepath.Walk
Trees ==
  {<< [rel |-> JoinPath(d1, "m.go"), dirs |-> d1, ext |-> ".go"],
      [rel |-> JoinPath(d2, "w.js"), dirs |-> d2, ext |-> ".js"] >> :
     d1 \in DirPaths({"build", "lib"}), d2 \in DirPaths({"src", "vendor"})}

\* one direct call IndexDirectory(ctx, "work", "rt") on a drawn tree
TreeInit ==
  /\ graph = EmptyGraph
  /\ history = [r \in RepoIds |-> << >>]
  /\ deleted = {}
  /\ runs = [i \in RunIds |-> IF i = 1 THEN NewRun("rt", "direct", "walk", FALSE) ELSE IdleRun]
  /\ parserUsers = {}
  /\ crashed = FALSE
  /\ cancelled = FALSE
  /\ faults = 0
  /\ \E t \in Trees : call = [op |-> "IndexDirectory", tree |-> t]

TreeSpec == TreeInit /\ [][PipelineNext]_vars

\* ------------------------------------------------------------------------
\* The graph reader.  The id of a node (a uuid of its own) is modelled by
\* the node itself.
\* ------------------------------------------------------------------------
Callable == {"Function", "Method"}

\* (r:Repository {id: $repoId})-[:CONTAINS]->(f:File)
FilesOf(G, repoID) ==
  {f \in G.files : HasRepo(G, repoID) /\ << repoID, FileKey(f) >> \in G.contains}

\* (f)-[:DECLARES]->(fn:Function|Method)
FunctionsOf(G, f) ==
  {n \in G.ents : << FileKey(f), n >> \in G.declares /\ n.label \in Callable}

\* the paths of the model in the order of ORDER BY f.path
PathOrder == << "a.go", "a.py", "b.go", "b.py", "c.py" >>

\* ORDER BY fn.startLine
RECURSIVE ByStartLine(_)
ByStartLine(S) ==
  IF S = {} THEN << >>
  ELSE LET m == CHOOSE x \in S : \A y \in S : x.startLine <= y.startLine
       IN << m >> \o ByStartLine(S \ {m})

\* the FileNode of a record: Functions starts as []FunctionRef{}
FileNodeOf(G, f) ==
  LET fns == ByStartLine(FunctionsOf(G, f))
  IN [ID |-> f, Path |-> f.path, Language |-> f.language,
      Functions |-> [k \in 1..Len(fns) |->
                       [ID |-> fns[k], Name |-> fns[k].name,
                        StartLine |-> fns[k].startLine, EndLine |-> fns[k].endLine]]]

\* a GetFileTree whose query does not match the repository
GetFileTreeAnyRepo(G, repoID) ==
  LET has(p) == \E f \in G.files : f.path = p
      paths  == SelectSeq(PathOrder, has)
      items  == [k \in 1..Len(paths) |->
                   FileNodeOf(G, CHOOSE f \in G.files : f.path = paths[k])]
  IN [err |-> "nil", isNil |-> Len(items) = 0, items |-> items]

\* GetFileTree: var files []FileNode is nil until the first record is
\* appended, and it is what the call returns
GetFileTree(G, repoID) ==
  LET has(p) == \E f \in FilesOf(G, repoID) : f.path = p
      paths  == SelectSeq(PathOrder, has)
      items  == [k \in 1..Len(paths) |->
                   FileNodeOf(G, CHOOSE f \in FilesOf(G, repoID) : f.path = paths[k])]
  IN [err |-> "nil", isNil |-> Len(items) = 0, items |-> items]

\* the GraphNode of a File and of a Function or Method
FileGraphNode(f) == [ID |-> f, Label |-> f.path, Type |-> "File"]
FunctionGraphNode(n) == [ID |-> n, Label |-> n.name, Type |-> "Function"]

\* a GetGraph whose calls mode also emits the File f of each row and its
\* DECLARES edge
GetGraphCallsWithFiles(G, repoID, graphType) ==
  LET fns == {<< f, n >> \in FilesOf(G, repoID) \X G.ents : n \in FunctionsOf(G, f)}
      cs  == {c \in G.calls : (\E p \in fns : p[2] = c[1]) /\ c[2].label \in Callable}
  IN [Nodes |-> {FileGraphNode(f) : f \in FilesOf(G, repoID)}
                \cup {FunctionGraphNode(p[2]) : p \in fns}
                \cup (IF graphType = "calls" THEN {FunctionGraphNode(c[2]) : c \in cs} ELSE {}),
      Edges |-> {[Source |-> p[1], Target |-> p[2], Type |-> "DECLARES"] : p \in fns}
                \cup (IF graphType = "calls"
                      THEN {[Source |-> c[1], Target |-> c[2], Type |-> "CALLS"] : c \in cs}
                      ELSE {})]

\* a GetGraph whose structure mode emits no node for the File of a row
GetGraphNoFileNodes(G, repoID, graphType) ==
  LET fns == {<< f, n >> \in FilesOf(G, repoID) \X G.ents : n \in FunctionsOf(G, f)}
      cs  == {c \in G.calls : (\E p \in fns : p[2] = c[1]) /\ c[2].label \in Callable}
  IN IF graphType = "calls"
     THEN [Nodes |-> {FunctionGraphNode(p[2]) : p \in fns}
                     \cup {FunctionGraphNode(c[2]) : c \in cs},
           Edges |-> {[Source |-> c[1], Target |-> c[2], Type |-> "CALLS"] : c \in cs}]
     ELSE [Nodes |-> {FunctionGraphNode(p[2]) : p \in fns},
           Edges |-> {[Source |-> p[1], Target |-> p[2], Type |-> "DECLARES"] : p \in fns}]

\* GetGraph: the nodes and edges of the rows, each once (nodesMap,
\* edgesMap), in no order
GetGraph(G, repoID, graphType) ==
  LET fns == {<< f, n >> \in FilesOf(G, repoID) \X G.ents : n \in FunctionsOf(G, f)}
      cs  == {c \in G.calls : (\E p \in fns : p[2] = c[1]) /\ c[2].label \in Callable}
  IN IF graphType = "calls"
     THEN [Nodes |-> {FunctionGraphNode(p[2]) : p \in fns}
                     \cup {FunctionGraphNode(c[2]) : c \in cs},
           Edges |-> {[Source |-> c[1], Target |-> c[2], Type |-> "CALLS"] : c \in cs}]
     ELSE [Nodes |-> {FileGraphNode(f) : f \in FilesOf(G, repoID)}
                     \cup {FunctionGraphNode(p[2]) : p \in fns},
           Edges |-> {[Source |-> p[1], Target |-> p[2], Type |-> "DECLARES"] : p \in fns}]

\* GetNodeDetail: the node with the id at one or two CONTAINS edges from
\* the repository, with the names of what it calls and of what calls it;
\* found = FALSE is the return nil, nil
GetNodeDetail(G, repoID, nodeID) ==
  LET one     == FilesOf(G, repoID)
      two     == {x \in G.files \cup G.ents :
                    \E f \in one : << FileKey(f), x >> \in G.contains}
      matched == {x \in one \cup two : x = nodeID}
  IN IF matched = {} THEN [found |-> FALSE]
     ELSE LET node == CHOOSE x \in matched : TRUE
              type == IF node \in G.files THEN "File"
                      ELSE IF node.label \in Callable THEN node.label ELSE ""
          IN [found    |-> TRUE,
              ID       |-> node,
              Type     |-> type,
              Name     |-> IF node \in G.files THEN node.path ELSE node.name,
              Calls    |-> IF type \in Callable
                           THEN {c[2].name : c \in {x \in G.calls :
                                    x[1] = node /\ x[2].label \in Callable}}
                           ELSE {},
              CalledBy |-> IF type \in Callable
                           THEN {c[1].name : c \in {x \in G.calls :
                                    x[2] = node /\ x[1].label \in Callable}}
                           ELSE {}]

\* the repositories that own a node: (node)<-[:DECLARES]-(f:File)
\* <-[:CONTAINS]-(r:Repository)
OwnersOf(G, node) ==
  {r \in G.repos : \E f \in G.files :
     << FileKey(f), node >> \in G.declares /\ << r.id, FileKey(f) >> \in G.contains}

\* a search without the WHERE clause on r.id
VectorSearchNoFilter(G, rank, limit, repoID) ==
  LET top     == SubSeq(rank, 1, IF limit < Len(rank) THEN limit ELSE Len(rank))
      keep(n) == OwnersOf(G, n) # {}
      hits    == SelectSeq(top, keep)
  IN [k \in 1..Len(hits) |->
        [ID |-> hits[k], Name |-> hits[k].name, FilePath |-> hits[k].filePath,
         RepoID |-> (CHOOSE r \in OwnersOf(G, hits[k]) : TRUE).id]]

\* VectorSearch: rank is the nodes of the index function_embeddings in the
\* order of their similarity to the embedding; queryNodes yields the first
\* limit of them, the MATCH and the WHERE clause keep those whose
\* repository passes the filter ("" is no filter)
VectorSearch(G, rank, limit, repoID) ==
  LET top     == SubSeq(rank, 1, IF limit < Len(rank) THEN limit ELSE Len(rank))
      ok(r)   == repoID = "" \/ r.id = repoID
      keep(n) == \E r \in OwnersOf(G, n) : ok(r)
      hits    == SelectSeq(top, keep)
  IN [k \in 1..Len(hits) |->
        [ID |-> hits[k], Name |-> hits[k].name, FilePath |-> hits[k].filePath,
         RepoID |-> (CHOOSE r \in OwnersOf(G, hits[k]) : ok(r)).id]]

\* the store after one more repository has been created and indexed
\* without any failure
StoreWith(G, r) ==
  WriteIndexResult(CreateRepositoryTx(G, r, "pending"),
                   PlainResult(r, Walk(r), Len(Walk(r))))

\* the stores the read requests are served from: nothing; r1 and r2
\* indexed and "rw" created; all three indexed
ReaderGraphs ==
  LET two == StoreWith(StoreWith(EmptyGraph, "r1"), "r2")
  IN {EmptyGraph, CreateRepositoryTx(two, "rw", "pending"), StoreWith(two, "rw")}

\* the repository ids of the requests ("r0": no such repository)
ReaderRepos == {"r0", "r1", "r2", "rw"}

\* the orders by similarity of at most MaxIndexed Function nodes that
\* carry an embedding
Ranks(G) ==
  LET fs == {n \in G.ents : n.label = "Function"}
  IN UNION {{q \in [1..n -> fs] : \A a, b \in 1..n : q[a] = q[b] => a = b}
            : n \in 0..MaxIndexed}

ReaderInit ==
  /\ graph \in ReaderGraphs
  /\ history = [r \in RepoIds |-> << >>]
  /\ deleted = {}
  /\ runs = [i \in RunIds |-> IdleRun]
  /\ parserUsers = {}
  /\ crashed = FALSE
  /\ cancelled = FALSE
  /\ faults = 0
  /\ call = NoCall

\* a read request is served: it leaves the store and the index runs as
\* they are
Served(c) ==
  /\ call = NoCall
  /\ call' = c
  /\ UNCHANGED << graph, deleted, runs, parserUsers, crashed, cancelled, faults, history >>

GetFileTreeCall ==
  \E r \in ReaderRepos :
    Served([op |-> "GetFileTree", repo |-> r, ret |-> GetFileTree(graph, r)])

GetGraphCall ==
  \E r \in ReaderRepos : \E t \in {"structure", "calls"} :
    Served([op |-> "GetGraph", repo |-> r, type |-> t, ret |-> GetGraph(graph, r, t)])

GetNodeDetailCall ==
  \E r \in ReaderRepos : \E id \in graph.files \cup graph.ents :
    Served([op |-> "GetNodeDetail", repo |-> r, id |-> id,
            ret |-> GetNodeDetail(graph, r, id)])

VectorSearchCall ==
  \E r \in ReaderRepos \cup {""} : \E q \in Ranks(graph) : \E k \in 1..MaxLimit :
    Served([op |-> "VectorSearch", repo |-> r, rank |-> q, limit |-> k,
            ret |-> VectorSearch(graph, q, k, r)])

\* the handler has sent the response of the request
SendResponse ==
  /\ call # NoCall
  /\ call' = NoCall
  /\ UNCHANGED << graph, deleted, runs, parserUsers, crashed, cancelled, faults, history >>

ReaderNext ==
  \/ GetFileTreeCall
  \/ GetGraphCall
  \/ GetNodeDetailCall
  \/ VectorSearchCall
  \/ SendResponse

ReaderSpec == ReaderInit /\ [][ReaderNext]_vars

\* ------------------------------------------------------------------------
\* The extractor: extractCalls on the syntax tree of an entity.  A node is
\* a record [type, function, kids]: its node type, the callee expression
\* under its field "function" as the sequence of its dotted segments
\* (<< >>: no such field), and its named children in order.
\* ------------------------------------------------------------------------
\* getNodeContent(funcNode, content): the source text of the callee
\* expression
RECURSIVE CalleeText(_)
CalleeText(segs) ==
  IF segs = << >> THEN ""
  ELSE IF Len(segs) = 1 THEN segs[1]
  ELSE segs[1] \o "." \o CalleeText(Tail(segs))

\* a callsMap that never holds a name
SeenNever(calls, name) == FALSE

\* callsMap[callName]: the map holds the names appended so far
Seen(calls, name) == name \in Range(calls)

\* traverse(n): a call node with a function field appends the text of the
\* field unless it is empty or seen; then the named children in order
RECURSIVE Traverse(_, _)
RECURSIVE TraverseKids(_, _, _)
Traverse(n, calls) ==
  LET name == CalleeText(n.function)
      here == IF /\ n.type \in {"call_expression", "call"}
                 /\ n.function # << >>
                 /\ name # ""
                 /\ ~Seen(calls, name)
              THEN Append(calls, name) ELSE calls
  IN TraverseKids(n.kids, 1, here)

TraverseKids(kids, k, calls) ==
  IF k > Len(kids) THEN calls
  ELSE TraverseKids(kids, k + 1, Traverse(kids[k], calls))

extractCalls(node) == Traverse(node, << >>)

\* the callee expressions of the drawn bodies
Callees == {<< "a" >>, << "b" >>, << "x", "f" >>, << "y", "f" >>, << "pkg", "obj", "f" >>}

TreeNode(type, function, kids) == [type |-> type, function |-> function, kids |-> kids]

\* a call without arguments in Go or in Python, a call node without a
\* function field, a node that is no call
LeafNodes ==
  {TreeNode("call_expression", c, << >>) : c \in Callees}
  \cup {TreeNode("call", << "a" >>, << >>),
        TreeNode("call_expression", << >>, << >>),
        TreeNode("identifier", << >>, << >>)}

\* a statement: a leaf, or a call with one leaf among its arguments
Statements ==
  LeafNodes \cup {TreeNode("call_expression", c, << k >>) : c \in Callees, k \in LeafNodes}

\* the declaration nodes of entities with at most MaxStatements statements
Bodies ==
  {TreeNode("function_declaration", << >>, kids) :
     kids \in UNION {[1..n -> Statements] : n \in 0..MaxStatements}}

ExtractInit ==
  /\ graph = EmptyGraph
  /\ history = [r \in RepoIds |-> << >>]
  /\ deleted = {}
  /\ runs = [i \in RunIds |-> IdleRun]
  /\ parserUsers = {}
  /\ crashed = FALSE
  /\ cancelled = FALSE
  /\ faults = 0
  /\ \E node \in Bodies :
       call = [op |-> "extractCalls", node |-> node, done |-> FALSE, ret |-> << >>]

\* calls := extractCalls(node, content)
ExtractCallsStep ==
  /\ call.op = "extractCalls"
  /\ ~call.done
  /\ call' = [call EXCEPT !.done = TRUE, !.ret = extractCalls(call.node)]
  /\ UNCHANGED << graph, deleted, runs, parserUsers, crashed, cancelled, faults, history >>

ExtractNext == ExtractCallsStep

ExtractSpec == ExtractInit /\ [][ExtractNext]_vars

\* ------------------------------------------------------------------------
\* The extractor: the signature of an entity.  The source text of a node is
\* a sequence of tokens (" " and "\n" are the white space); a declaration
\* node is a record [lang, text, bodyField, bodyStart]: the name of the
\* field that holds its body ("none": no body) and the position in text at
\* which the body starts.
\* ------------------------------------------------------------------------
WhiteSpace == {" ", "\n"}

\* strings.TrimSpace
RECURSIVE TrimSpace(_)
TrimSpace(t) ==
  IF t = << >> THEN t
  ELSE IF Head(t) \in WhiteSpace THEN TrimSpace(Tail(t))
  ELSE IF t[Len(t)] \in WhiteSpace THEN TrimSpace(SubSeq(t, 1, Len(t) - 1))
  ELSE t

\* strings.Split(fullContent, "\n")[0]
RECURSIVE FirstLine(_)
FirstLine(t) ==
  IF t = << >> \/ Head(t) = "\n" THEN << >> ELSE << Head(t) >> \o FirstLine(Tail(t))

\* content[node.StartByte():bodyNode.StartByte()] when the node has the
\* field and the body does not start the node, else the first line
UpToBody(node, fields) ==
  IF node.bodyField \in fields /\ node.bodyStart > 1
  THEN TrimSpace(SubSeq(node.text, 1, node.bodyStart - 1))
  ELSE TrimSpace(FirstLine(node.text))

\* the Signature of the entity of a declaration node: getNodeContent(node)
\* in extractGoFunction, getPythonSignature, getTSSignature,
\* getJavaSignature, getKotlinSignature
Signature(node) ==
  CASE node.lang = "go"     -> node.text
    [] node.lang = "python" -> TrimSpace(FirstLine(node.text))
    [] node.lang = "kotlin" -> UpToBody(node, {"function_body", "class_body"})
    [] OTHER                -> UpToBody(node, {"body"})

\* the body fields the grammar of a language gives a declaration
BodyFields(lang) ==
  IF lang = "kotlin" THEN {"none", "function_body", "class_body"} ELSE {"none", "body"}

\* declarations: a header of one or two lines, white space or none before
\* the body, a body on the same line or on lines of its own
Declarations ==
  {[lang |-> l, text |-> h \o sep \o (IF f = "none" THEN << >> ELSE b),
    bodyField |-> f, bodyStart |-> IF f = "none" THEN 0 ELSE Len(h \o sep) + 1] :
     l \in Languages,
     h \in {<< "head" >>, << "head", "\n", "params" >>},
     sep \in {<< >>, << " " >>, << "\n", " " >>},
     b \in {<< "{", "stmt", "}" >>, << "{", "\n", "stmt", "\n", "}" >>},
     f \in {"none", "body", "function_body", "class_body"}}

SignatureInit ==
  /\ graph = EmptyGraph
  /\ history = [r \in RepoIds |-> << >>]
  /\ deleted = {}
  /\ runs = [i \in RunIds |-> IdleRun]
  /\ parserUsers = {}
  /\ crashed = FALSE
  /\ cancelled = FALSE
  /\ faults = 0
  /\ \E node \in {d \in Declarations : d.bodyField \in BodyFields(d.lang)} :
       call = [op |-> "Signature", node |-> node, done |-> FALSE, ret |-> << >>]

\* signature := ... in the extract function of the language
SignatureStep ==
  /\ call.op = "Signature"
  /\ ~call.done
  /\ call' = [call EXCEPT !.done = TRUE, !.ret = Signature(call.node)]
  /\ UNCHANGED << graph, deleted, runs, parserUsers, crashed, cancelled, faults, history >>

SignatureNext == SignatureStep

SignatureSpec == SignatureInit /\ [][SignatureNext]_vars

\* ------------------------------------------------------------------------
\* The extractor: Extract for a language
\* ------------------------------------------------------------------------
\* the cases of the switch of Extract
ExtractCases == {"go", "python", "typescript", "javascript", "java", "kotlin"}

\* an Extract whose switch has no case for kotlin
ExtractNoKotlin(language, parsed, found) ==
  IF language \notin Languages
  THEN [entities |-> << >>, err |-> "unsupported language"]
  ELSE IF parsed = "error"
  THEN [entities |-> << >>, err |-> "parse error"]
  ELSE IF language \in ExtractCases \ {"kotlin"}
  THEN [entities |-> found, err |-> "nil"]
  ELSE [entities |-> << >>, err |-> "unsupported language"]

\* Extract: Parser.Parse fails for a language without grammar
\* ("unsupported language") or when ParseCtx returns an error ("parse
\* error"); then the switch on the language.  found is what the extract
\* function of the language collects from the tree.
Extract(language, parsed, found) ==
  IF language \notin Languages
  THEN [entities |-> << >>, err |-> "unsupported language"]
  ELSE IF parsed = "error"
  THEN [entities |-> << >>, err |-> "parse error"]
  ELSE IF language \in ExtractCases
  THEN [entities |-> found, err |-> "nil"]
  ELSE [entities |-> << >>, err |-> "unsupported language"]

\* the language identifiers of the calls: the registered ones and others
LanguageIds == Languages \cup {"unsupported", "", "tsx", "rust", "c"}

\* what the tree of the content holds: no entity, one, two
FoundLists ==
  {<< >>, << "f" >>, << "f", "g" >>}

\* one call Extract(ctx, content, language, filePath) on an extractor that
\* no other goroutine uses; ctx is live or cancelled
ExtractorInit ==
  /\ graph = EmptyGraph
  /\ history = [r \in RepoIds |-> << >>]
  /\ deleted = {}
  /\ runs = [i \in RunIds |-> IdleRun]
  /\ parserUsers = {}
  /\ crashed = FALSE
  /\ cancelled = FALSE
  /\ faults = 0
  /\ \E l \in LanguageIds : \E c \in BOOLEAN : \E found \in FoundLists :
       call = [op |-> "Extract", language |-> l, ctxCancelled |-> c, found |-> found,
               done |-> FALSE, ret |-> [entities |-> << >>, err |-> "none"]]

\* the call returns; ParseCtx yields a tree, and with a cancelled context
\* it may yield the error of the context instead
ExtractStep ==
  /\ call.op = "Extract"
  /\ ~call.done
  /\ \E parsed \in {"tree"} \cup (IF call.ctxCancelled THEN {"error"} ELSE {}) :
       call' = [call EXCEPT !.done = TRUE,
                            !.ret = Extract(call.language, parsed, call.found)]
  /\ UNCHANGED << graph, deleted, runs, parserUsers, crashed, cancelled, faults, history >>

ExtractorNext == ExtractStep

ExtractorSpec == ExtractorInit /\ [][ExtractorNext]_vars

\* ------------------------------------------------------------------------
\* The pipeline: embeddings of the entities of a result
\* ------------------------------------------------------------------------
\* const batchSize of generateEmbeddings
BatchSize == 32

\* the largest number of entities of a result
MaxEntities == 70

\* the smaller of two numbers
Min(a, b) == IF a < b THEN a ELSE b

\* the entities of the batch that starts after entity i: entities[i:end]
Batch(i, n) == (i + 1) .. Min(i + BatchSize, n)

\* the start of the batch entity k belongs to
BatchOf(k) == ((k - 1) \div BatchSize) * BatchSize

\* IndexDirectory has collected n entities and a TEI client is set
EmbedInit ==
  /\ graph = EmptyGraph
  /\ history = [r \in RepoIds |-> << >>]
  /\ deleted = {}
  /\ runs = [i \in RunIds |-> IdleRun]
  /\ parserUsers = {}
  /\ crashed = FALSE
  /\ cancelled = FALSE
  /\ faults = 0
  /\ \E n \in 0 .. MaxEntities :
       call = [op |-> "generateEmbeddings", n |-> n, i |-> 0, embedded |-> {},
               failed |-> {}, err |-> "nil", done |-> FALSE,
               ret |-> [entities |-> 0, err |-> "none"]]

\* one iteration of the loop of generateEmbeddings: Embed answers with an
\* embedding for each text of the batch, or fails and the function returns
EmbedBatch ==
  /\ call.op = "generateEmbeddings"
  /\ ~call.done
  /\ call.err = "nil"
  /\ call.i < call.n
  /\ \/ call' = [call EXCEPT !.embedded = @ \cup Batch(call.i, call.n),
                             !.i = @ + BatchSize]
     \/ call' = [call EXCEPT !.failed = @ \cup {call.i},
                             !.err = "failed to generate embeddings"]
  /\ UNCHANGED << graph, deleted, runs, parserUsers, crashed, cancelled, faults, history >>

\* generateEmbeddings has returned (or was not called for an empty result);
\* IndexDirectory logs the error and returns the result
EmbedReturn ==
  /\ call.op = "generateEmbeddings"
  /\ ~call.done
  /\ call.err # "nil" \/ call.i >= call.n
  /\ call' = [call EXCEPT !.done = TRUE,
                          !.ret = [entities |-> call.n, err |-> "nil"]]
  /\ UNCHANGED << graph, deleted, runs, parserUsers, crashed, cancelled, faults, history >>

EmbedNext == EmbedBatch \/ EmbedReturn

EmbedSpec == EmbedInit /\ [][EmbedNext]_vars

\* ------------------------------------------------------------------------
\* Properties
\* ------------------------------------------------------------------------
StatusOf(G, r) == RepoNode(G, r).status

StatusReady(r) == HasRepo(graph, r) /\ StatusOf(graph, r) = "ready"

\* run i takes a step of its own (the records of what happened to it aside)
RunMoved(i) ==
  << runs'[i].pc, runs'[i].idx, runs'[i].wpc >> # << runs[i].pc, runs[i].idx, runs[i].wpc >>

\* C1: at no time are two goroutines inside Parser.Parse of the same Parser,
\* neither two workers of one IndexDirectory call nor workers of two index
\* runs on the handler's one Pipeline.
C1_OneGoroutineInParse == Cardinality(parserUsers) <= 1

\* C2: once acquisition, the walk or a graph write of an index run
\* (ClearRepository, WriteFile, WriteEntity, WriteCallRelationships,
\* UpdateRepositoryStats) has failed, the only step the run still takes is
\* the one that sets the status to error and ends it: no further pipeline
\* or write step, and never ready.
C2_FailureStopsRun ==
  [][\A i \in RunIds :
       (runs[i].failed # "none" /\ RunMoved(i)) =>
         /\ runs'[i].pc = "done"
         /\ HasRepo(graph', runs[i].repo) => StatusOf(graph', runs[i].repo) = "error"]_vars

\* the files of a returned IndexDirectory call that failed in processFile
FailedFiles(run) == {k \in 1..Len(run.files) : run.wout[k] \in ErrorOutcomes}

\* C3: when IndexDirectory has walked N eligible files of which k failed in
\* processFile (read, stat or extraction error), it returns a nil error,
\* FilesProcessed = N - k, exactly k Errors entries, one per failed file and
\* of the form "<relative path>: <message>", and no File and no entity of a
\* failed file.
C3_PerFileFailures ==
  \A i \in RunIds :
    (runs[i].caller = "direct" /\ runs[i].pc = "returned" /\ runs[i].err # "walk") =>
      LET run == runs[i]
          bad == FailedFiles(run)
      IN /\ run.err = "nil"
         /\ run.result.FilesProcessed = Len(run.files) - Cardinality(bad)
         /\ Len(run.result.Errors) = Cardinality(bad)
         /\ Range(run.result.Errors) =
              {run.files[k] \o ": " \o ErrMsg(run.wout[k]) : k \in bad}
         /\ \A k \in bad :
              /\ \A f \in Range(run.result.Files) : f.Path # run.files[k]
              /\ \A e \in Range(run.result.Entities) : e.FilePath # run.files[k]

\* a returned call in which two files failed (one of them by a read or stat
\* error) and one was processed
C3_Witness ==
  \E i \in RunIds :
    /\ runs[i].caller = "direct" /\ runs[i].pc = "returned" /\ runs[i].err = "nil"
    /\ Cardinality(FailedFiles(runs[i])) = 2
    /\ \E k \in FailedFiles(runs[i]) : runs[i].wout[k] \in {"read", "stat"}
    /\ runs[i].result.FilesProcessed = 1
    /\ Len(runs[i].result.Entities) >= 1

\* C4: when the context of an IndexDirectory call is cancelled while files
\* are still being processed, the call returns a non-nil error.
C4_CancelReturnsError ==
  \A i \in RunIds :
    (cancelled /\ runs[i].caller = "direct" /\ runs[i].pc = "returned") =>
      runs[i].err # "nil"

StatusValues == {"pending", "indexing", "ready", "error"}

StatusMoves ==
  {<< "pending", "indexing" >>, << "indexing", "ready" >>, << "indexing", "error" >>,
   << "ready", "indexing" >>, << "error", "indexing" >>}

\* C5: the status of a repository is one of pending, indexing, ready, error;
\* it is pending at creation; every change is pending -> indexing,
\* indexing -> ready, indexing -> error, or a re-index taking ready or error
\* to indexing: never pending directly to ready or error.
C5_StatusMachine ==
  [][\A r \in RepoIds :
       /\ HasRepo(graph', r) => StatusOf(graph', r) \in StatusValues
       /\ (~HasRepo(graph, r) /\ HasRepo(graph', r)) => StatusOf(graph', r) = "pending"
       /\ (HasRepo(graph, r) /\ HasRepo(graph', r)
             /\ StatusOf(graph', r) # StatusOf(graph, r)) =>
            << StatusOf(graph, r), StatusOf(graph', r) >> \in StatusMoves]_vars

NoFileFault(outcomes) == outcomes \cap {"read", "stat"} = {}

\* C7: when an index run of a repository ends (UpdateRepositoryStats
\* commits) after an earlier run of the same repository, no other run of it
\* in between or during it, and in neither run a file could not be read,
\* the repository owns the same File nodes, the same entity nodes and the
\* same counts as after the earlier run.
C7_SecondRunSameGraph ==
  [][\A i \in RunIds :
       LET r == runs[i].repo
       IN (/\ runs[i].pc = "stats" /\ runs'[i].pc = "done"
           /\ ~runs[i].overlap
           /\ HasRepo(graph, r)
           /\ history[r] # << >>
           /\ NoFileFault(Range(runs[i].wout))
           /\ NoFileFault(history[r][1].outcomes))
          => Owned(graph', r) = history[r][1].owned]_vars

\* C8: once DeleteRepository(R) has committed, no File node and no entity
\* node with repoId R exists, whatever write steps of an index run of R
\* come after it.
C8_DeletedOwnsNothing ==
  \A r \in deleted :
    /\ \A f \in graph.files : f.repoId # r
    /\ \A e \in graph.ents : e.repoId # r

\* an index run has gone through WriteFile and WriteEntity transactions
\* after its repository was deleted
C8_Witness ==
  \E i \in RunIds :
    /\ runs[i].wroteGone
    /\ runs[i].repo \in deleted
    /\ runs[i].pc \in {"writeCalls", "stats"}
    /\ Len(runs[i].result.Files) >= 1
    /\ Len(runs[i].result.Entities) >= 1

\* C9: the step in which ClearRepository(R) commits leaves no File linked
\* from R by CONTAINS and no entity declared by a file of R, and changes
\* neither a Repository node nor a node or an edge of another repository.
C9_ClearFrame ==
  [][\A i \in RunIds :
       LET r == runs[i].repo
       IN (runs[i].pc = "clone" /\ runs'[i].pc = "setIndexing" /\ runs'[i].failed # "clear")
          => /\ \A c \in graph'.contains : c[1] # r
             /\ \A d \in graph'.declares : d[1][1] # r
             /\ graph'.repos = graph.repos
             /\ {f \in graph'.files : f.repoId # r} = {f \in graph.files : f.repoId # r}
             /\ {e \in graph'.ents : e.repoId # r} = {e \in graph.ents : e.repoId # r}
             /\ {c \in graph'.contains : c[1] # r} = {c \in graph.contains : c[1] # r}
             /\ {d \in graph'.declares : d[1][1] # r} = {d \in graph.declares : d[1][1] # r}
             /\ {c \in graph'.calls : c[1].repoId # r /\ c[2].repoId # r}
                  = {c \in graph.calls : c[1].repoId # r /\ c[2].repoId # r}]_vars

\* ClearRepository has just removed the files of a repository while another
\* repository has files, entities and a CALLS edge
C9_Witness ==
  \E i \in RunIds :
    /\ runs[i].pc = "setIndexing" /\ runs[i].failed = "none" /\ runs[i].cleared > 0
    /\ \E f \in graph.files : f.repoId # runs[i].repo
    /\ \E c \in graph.calls : c[1].repoId # runs[i].repo

\* C10: in every reachable graph each CALLS edge connects two entities with
\* the same repoId.
C10_CallsWithinRepo == \A c \in graph.calls : c[1].repoId = c[2].repoId

\* two repositories with an entity of the same name in a file of the same
\* path both have their CALLS edge
C10_Witness ==
  \A r \in RepoIds : \E c \in graph.calls :
    c[1].repoId = r /\ c[1].name = "f" /\ c[1].filePath = "a.go"


\* every File of the result has its node
FilesWritten(G, result) ==
  \A k \in 1..Len(result.Files) :
    \E f \in G.files : FileKey(f) = << result.Files[k].RepoID, result.Files[k].Path >>

\* the nodes that WriteEntity has written for an entity of the result
NodesOf(G, repoID, entity) ==
  {n \in G.ents : /\ n.repoId = repoID
                  /\ n.label = entity.Type
                  /\ n.name = entity.Name
                  /\ n.filePath = entity.FilePath}

\* every entity of the result that WriteEntity writes has its node
EntitiesWritten(G, result) ==
  \A k \in 1..Len(result.Entities) :
    result.Entities[k].Type \in EntityLabels =>
      NodesOf(G, result.RepoID, result.Entities[k]) # {}

\* entity j of the result calls, by name, the function or method that is
\* entity k, which comes later in the result
ForwardCall(result, j, k) ==
  /\ j < k
  /\ result.Entities[k].Type \in {"Function", "Method"}
  /\ result.Entities[k].Name \in Range(result.Entities[j].Calls)

HasCall(G, repoID, from, to) ==
  \E c \in G.calls : c[1] \in NodesOf(G, repoID, from) /\ c[2] \in NodesOf(G, repoID, to)

WriteSucceeds == runs[1].pc = "stats" /\ runs'[1].pc = "done"

\* in G every node of an entity of the result has a CALLS edge to every
\* node of its repository that has one of the labels and a name the entity
\* calls
CallsResolved(G, result, labels) ==
  \A j \in 1..Len(result.Entities) :
    \A a \in NodesOf(G, result.RepoID, result.Entities[j]) :
      \A n \in G.ents :
        (/\ n.repoId = result.RepoID
         /\ n.label \in labels
         /\ n.name \in Range(result.Entities[j].Calls)) => << a, n >> \in G.calls

SequentialResult(repoID, out) == FoldResult(repoID, Walk(repoID), out, Len(Walk(repoID)))

\* what processFile returns for file k of a run when no other goroutine is
\* in the parser: the read or stat error the run has met, else the
\* extraction of the file
SequentialOutcomes(run) ==
  [f \in Range(run.files) |->
     LET k == CHOOSE n \in 1..Len(run.files) : run.files[n] = f
     IN IF run.wout[k] \in {"read", "stat"} THEN run.wout[k]
        ELSE PlainOutcome(run.repo, f)]

\* two results are the same up to the order of their lists
SameResult(a, b) ==
  /\ a.FilesProcessed = b.FilesProcessed
  /\ a.EntitiesFound = b.EntitiesFound
  /\ Len(a.Files) = Len(b.Files) /\ Range(a.Files) = Range(b.Files)
  /\ Len(a.Entities) = Len(b.Entities) /\ Range(a.Entities) = Range(b.Entities)
  /\ Len(a.Errors) = Len(b.Errors) /\ Range(a.Errors) = Range(b.Errors)

\* C13: when IndexDirectory returns (context not cancelled), every worker
\* has finished and the result is, up to order, the result of processing
\* the same files one at a time.
C13_SameAsSequential ==
  \A i \in RunIds :
    (runs[i].caller = "direct" /\ runs[i].pc = "returned" /\ runs[i].err = "nil"
     /\ ~cancelled) =>
      /\ \A k \in 1..Len(runs[i].files) : runs[i].wpc[k] = "done"
      /\ SameResult(runs[i].result,
                    SequentialResult(runs[i].repo, SequentialOutcomes(runs[i])))


\* the files of a tree that lie below a directory named in the ignore set
BelowIgnored(tree) ==
  {e \in Range(tree) : \E k \in 1..Len(e.dirs) : e.dirs[k] \in IgnoredDirs}

\* C14: no file below a directory whose name is in the ignore set, at any
\* depth below the root, is among the walked files or in Files, and
\* FilesProcessed counts the files of Files only.
C14_IgnoredDirsSkipped ==
  \A i \in RunIds :
    runs[i].repo = "rt" =>
      LET result == runs[i].result
      IN /\ \A e \in BelowIgnored(call.tree) :
              /\ e.rel \notin Range(runs[i].files)
              /\ \A f \in Range(result.Files) : f.Path # e.rel
         /\ result.FilesProcessed = Len(result.Files)
         /\ result.FilesProcessed <=
              Cardinality(Range(call.tree) \ BelowIgnored(call.tree))

\* the call has returned for a tree with one file two directories deep
\* below an ignored directory that is not the first of its path, and the
\* other file has been processed
C14_Witness ==
  /\ runs[1].repo = "rt" /\ runs[1].pc = "returned" /\ runs[1].err = "nil"
  /\ \E e \in BelowIgnored(call.tree) :
       Len(e.dirs) = 2 /\ e.dirs[1] \notin IgnoredDirs
  /\ runs[1].result.FilesProcessed = 1


\* the Function and Method nodes that a file of repository r declares
DeclaredIn(G, r) == UNION {FunctionsOf(G, f) : f \in FilesOf(G, r)}

\* C15: GetNodeDetail(R, id) for the id of a Function or Method node that
\* a file of R declares returns the detail of that node with the names of
\* the entities it calls and of those that call it; it returns not-found
\* only for an id that is of no File and no entity of R.
C15_NodeDetailOfFunctions ==
  call.op = "GetNodeDetail" =>
    /\ call.id \in DeclaredIn(graph, call.repo) =>
         /\ call.ret.found
         /\ call.ret.ID = call.id
         /\ call.ret.Calls = {c[2].name : c \in {x \in graph.calls : x[1] = call.id}}
         /\ call.ret.CalledBy = {c[1].name : c \in {x \in graph.calls : x[2] = call.id}}
    /\ ~call.ret.found =>
         /\ call.id \notin FilesOf(graph, call.repo)
         /\ \A f \in FilesOf(graph, call.repo) : << FileKey(f), call.id >> \notin graph.declares


\* C16: GetGraph(repo, "structure") returns no CALLS edge, and
\* GetGraph(repo, "calls") returns no DECLARES edge and no File node.
C16_GraphModesDisjoint ==
  call.op = "GetGraph" =>
    /\ call.type = "structure" => \A e \in call.ret.Edges : e.Type # "CALLS"
    /\ call.type = "calls" =>
         /\ \A e \in call.ret.Edges : e.Type # "DECLARES"
         /\ \A n \in call.ret.Nodes : n.Type # "File"

\* the calls graph of a repository with files, functions and CALLS edges
\* has been returned
C16_Witness ==
  /\ call.op = "GetGraph" /\ call.type = "calls"
  /\ FilesOf(graph, call.repo) # {}
  /\ \E e \in call.ret.Edges : e.Type = "CALLS" /\ e.Source \in DeclaredIn(graph, call.repo)
  /\ Cardinality(call.ret.Nodes) >= 2


\* the repository has no File node: it does not exist or nothing of it is
\* indexed
NoFilesOf(G, r) == \A f \in G.files : << r, FileKey(f) >> \notin G.contains

\* C17 (as amended): GetFileTree for a repository without files or for an
\* id of no repository returns no error and an empty list, which is the
\* nil slice.
C17_EmptyTreeIsNil ==
  (call.op = "GetFileTree" /\ NoFilesOf(graph, call.repo)) =>
    /\ call.ret.err = "nil"
    /\ Len(call.ret.items) = 0
    /\ call.ret.isNil

\* C17 as stated: GetFileTree for a repository without files or for an id
\* of no repository returns no error and an empty list that is not nil.
C17_EmptyTreeNotNil ==
  (call.op = "GetFileTree" /\ NoFilesOf(graph, call.repo)) =>
    /\ call.ret.err = "nil"
    /\ Len(call.ret.items) = 0
    /\ ~call.ret.isNil

\* GetFileTree has returned for an id of no repository while the store
\* holds files of other repositories
C17_Witness ==
  /\ call.op = "GetFileTree"
  /\ ~HasRepo(graph, call.repo)
  /\ graph.files # {}
  /\ Len(call.ret.items) = 0

\* C18: VectorSearch with a repository id that is not empty returns only
\* results of nodes that this repository owns; with the empty id it returns
\* every ranked node within the limit that some repository owns.
C18_SearchStaysInRepo ==
  call.op = "VectorSearch" =>
    LET top == SubSeq(call.rank, 1, IF call.limit < Len(call.rank) THEN call.limit
                                    ELSE Len(call.rank))
    IN /\ call.repo # "" =>
            \A k \in 1..Len(call.ret) :
              /\ call.ret[k].RepoID = call.repo
              /\ call.ret[k].ID \in UNION {{n \in graph.ents : << FileKey(f), n >> \in graph.declares}
                                           : f \in FilesOf(graph, call.repo)}
       /\ call.repo = "" =>
            {call.ret[k].ID : k \in 1..Len(call.ret)} =
              {n \in Range(top) : OwnersOf(graph, n) # {}}

\* a search in one repository has returned a result while the nearest node
\* of the index belongs to another repository
C18_Witness ==
  /\ call.op = "VectorSearch" /\ call.repo # ""
  /\ Len(call.ret) = 1 /\ call.limit = 2
  /\ Len(call.rank) = 2
  /\ call.rank[1].repoId # call.repo


\* the callee expressions of the call nodes of a tree in pre-order, one
\* entry per call
RECURSIVE CallSites(_)
RECURSIVE CallSitesOf(_, _)
CallSites(n) ==
  (IF n.type \in {"call_expression", "call"} /\ n.function # << >>
   THEN << n.function >> ELSE << >>) \o CallSitesOf(n.kids, 1)

CallSitesOf(kids, k) ==
  IF k > Len(kids) THEN << >> ELSE CallSites(kids[k]) \o CallSitesOf(kids, k + 1)

\* position of the first occurrence of x in s
FirstIndex(s, x) == CHOOSE k \in 1..Len(s) : s[k] = x /\ \A j \in 1..(k - 1) : s[j] # x

\* C19: the Calls list holds each distinct callee name of the body exactly
\* once, in the order of the first occurrences in a pre-order walk (the
\* name of a call being the text the extractor records for it).
C19_CallsOnceInOrder ==
  (call.op = "extractCalls" /\ call.done) =>
    LET sites == CallSites(call.node)
        names == [k \in 1..Len(sites) |-> CalleeText(sites[k])]
    IN /\ Range(call.ret) = Range(names)
       /\ \A a, b \in 1..Len(call.ret) :
            /\ call.ret[a] = call.ret[b] => a = b
            /\ a < b => FirstIndex(names, call.ret[a]) < FirstIndex(names, call.ret[b])

\* the calls a, b (as argument of a) and a again have yielded [a, b]
C19_Witness ==
  /\ call.op = "extractCalls" /\ call.done
  /\ call.ret = << "a", "b" >>
  /\ Len(CallSites(call.node)) = 3
  /\ CallSites(call.node)[3] = << "a" >>

\* C20: every name of the Calls list is the last dotted segment of a
\* callee expression of the body, and every last segment is in the list:
\* pkg.obj.f() is recorded as f, x.f() and y.f() as the one entry f.
C20_LastSegmentOnly ==
  (call.op = "extractCalls" /\ call.done) =>
    LET sites == CallSites(call.node)
    IN Range(call.ret) = {sites[k][Len(sites[k])] : k \in 1..Len(sites)}


\* C21: the Signature of an entity whose node has a body is the trimmed
\* text from the start of the node up to the body, and holds no token of
\* the body.
C21_SignatureStopsAtBody ==
  (call.op = "Signature" /\ call.done /\ call.node.bodyField # "none") =>
    /\ call.ret = TrimSpace(SubSeq(call.node.text, 1, call.node.bodyStart - 1))
    /\ \A k \in 1..Len(call.ret) : call.ret[k] \notin {"{", "stmt", "}"}


\* Extract has returned the unsupported-language error and no entity
UnsupportedReturned ==
  call.ret.err = "unsupported language" /\ call.ret.entities = << >>

\* C22 (as amended): Extract returns the unsupported-language error and no
\* entities exactly when the language has no registered grammar; for a
\* registered language and a context that is not cancelled it returns the
\* entity list, possibly empty, and no error.
C22_UnsupportedIffNoGrammar ==
  (call.op = "Extract" /\ call.done) =>
    /\ UnsupportedReturned <=> call.language \notin Languages
    /\ (call.language \in Languages /\ ~call.ctxCancelled) =>
         call.ret.err = "nil" /\ call.ret.entities = call.found

\* C22 as stated: Extract returns the unsupported-language error and no
\* entities exactly when the language has no registered grammar; for every
\* registered language it returns the entity list and no error.
C22_RegisteredNeverFails ==
  (call.op = "Extract" /\ call.done) =>
    /\ UnsupportedReturned <=> call.language \notin Languages
    /\ call.language \in Languages =>
         call.ret.err = "nil" /\ call.ret.entities = call.found

\* Extract has returned the entities of a kotlin file
C22_Witness ==
  /\ call.op = "Extract" /\ call.done
  /\ call.language = "kotlin"
  /\ call.ret.err = "nil" /\ Len(call.ret.entities) = 2


\* C23: when Embed fails for a batch, IndexDirectory returns the complete
\* result and a nil error, and an entity of the result lacks its embedding
\* exactly when the batch it belongs to is one that failed.
C23_OnlyFailedBatchLacks ==
  (call.op = "generateEmbeddings" /\ call.done) =>
    /\ call.ret.err = "nil"
    /\ call.ret.entities = call.n
    /\ \A k \in 1 .. call.n :
         k \notin call.embedded <=> BatchOf(k) \in call.failed


\* the workers of run i that are inside processFile
InProcessFile(i) ==
  {k \in Workers(i) : runs[i].wpc[k] \in {"parsing", "racing"}}

\* C24: at every moment of an IndexDirectory call at most 4 files are
\* inside processFile, and no file is processed before the directory walk
\* has finished.
C24_AtMostFourAfterWalk ==
  \A i \in RunIds :
    /\ Cardinality(InProcessFile(i)) <= 4
    /\ runs[i].pc = "walk" => runs[i].files = << >> /\ Workers(i) = {}

\* four files are inside processFile and a fifth waits for the semaphore
C24_Witness ==
  /\ runs[1].repo = "rs"
  /\ Cardinality(InProcessFile(1)) = 4
  /\ \E k \in Workers(1) : runs[1].wpc[k] = "queued"


\* the nodes and edges of a graph that are not those of repository r
OutsideOf(G, r) ==
  [repos    |-> {x \in G.repos : x.id # r},
   files    |-> {x \in G.files : x.repoId # r},
   ents     |-> {x \in G.ents : x.repoId # r},
   contains |-> {x \in G.contains : x[1] # r},
   declares |-> {x \in G.declares : x[2].repoId # r},
   calls    |-> {x \in G.calls : x[1].repoId # r \/ x[2].repoId # r}]

\* C25: a step of WriteIndexResult for repository R creates or changes
\* only nodes and edges of R; it adds no CALLS edge between entities of
\* another repository, also when that repository has an entity with the
\* name and file path of a caller in R.
C25_WritesOnlyOwnRepo ==
  [][runs[1].repo = "rx" => OutsideOf(graph', "rx") = OutsideOf(graph, "rx")]_vars

\* the entities of the source file of a node that the node was written for
WrittenFor(n) ==
  {e \in Range(ModelEntities(SourceEntities(n.repoId, n.filePath))) :
     e.Type = n.label /\ e.Name = n.name /\ e.StartLine = n.startLine}

\* C26: a CALLS edge from entity A to entity B is written only if the name
\* of B is in the Calls list of A itself, also when another entity of the
\* same file has the name of A.
C26_CallsOfOwnList ==
  \A c \in graph.calls :
    c[1].repoId = "rx" => \E e \in WrittenFor(c[1]) : c[2].name \in Range(e.Calls)

\* the last run of "rx" has written its result without an error
WrittenReady(r) ==
  /\ runs[1] = DoneRun
  /\ HasRepo(graph, r)
  /\ RepoNode(graph, r).status = "ready"

EdgeID(e) == << e.Source, e.Target >>

\* C28: in both modes the output of GetGraph is well-formed: each node id
\* and each edge id occurs at most once, and the source and the target of
\* every returned edge are ids of returned nodes.
C28_GraphWellFormed ==
  call.op = "GetGraph" =>
    LET ids == {n.ID : n \in call.ret.Nodes}
    IN /\ \A a, b \in call.ret.Nodes : a.ID = b.ID => a = b
       /\ \A a, b \in call.ret.Edges : EdgeID(a) = EdgeID(b) => a = b
       /\ \A e \in call.ret.Edges : e.Source \in ids /\ e.Target \in ids

\* the structure graph of a repository with two files or more that
\* declare functions has been returned
C28_Witness ==
  /\ call.op = "GetGraph" /\ call.type = "structure"
  /\ Cardinality({e.Source : e \in call.ret.Edges}) >= 2
  /\ \E n \in call.ret.Nodes : n.Type = "File"


\* the files of a tree that the walk is to find: those with a language
\* that are not below a directory of the ignore set
Eligible(tree) ==
  {e \in Range(tree) \ BelowIgnored(tree) : DetectLanguage(e.ext, e.rel # e.ext) # ""}

\* C29: the ignore set applies to the directories below the root only:
\* IndexDirectory on a root whose own name is in the ignore set finds the
\* eligible files beneath it, and has processed each when it returns.
C29_IgnoredRootStillIndexed ==
  (runs[1].repo = "rn" /\ runs[1].pc \in {"workers", "returned"} /\ runs[1].err # "walk") =>
    /\ Range(runs[1].files) = {e.rel : e \in Eligible(DirEntries("rn"))}
    /\ runs[1].pc = "returned" =>
         runs[1].result.FilesProcessed + Len(runs[1].result.Errors)
           = Cardinality(Eligible(DirEntries("rn")))

\* the two urls are spellings of one location: they differ in the scheme
\* or the suffix .git only
SameLocation(u1, u2) == u1.owner = u2.owner /\ u1.name = u2.name

\* C30: two repositories registered with different urls are never indexed
\* from the same local working tree: Clone returns different directories
\* for them (urls that are spellings of one location are left aside).
C30_DistinctUrlsDistinctTrees ==
  (/\ call.op = "Clone" /\ call.ret[1].err = "nil" /\ call.ret[2].err = "nil"
   /\ ~SameLocation(call.urls[1], call.urls[2])) =>
    call.ret[1].path # call.ret[2].path

====
